---- MODULE Spec2Model ----
(***************************************************************************)
(* A model of the DynamoDB query builder: the composite-key codec of       *)
(* SchemaFormatter, the request accumulator of Chain / Query and the       *)
(* over-fetch-by-one pagination of Chain.run.                              *)
(*                                                                         *)
(* Strings are sequences of one-character strings, so that split and join  *)
(* are computed as JavaScript computes them.  The value undefined is the   *)
(* one-element sequence Undef, which no string of the model equals.        *)
(***************************************************************************)
EXTENDS Integers, Sequences, FiniteSets, TLC

VARIABLES
    schema,     \* the KeySchema the SchemaFormatter was constructed with
    item,       \* codec: the logical key record handed to the codec
    phys,       \* codec: result of formatItemKeysDtoAsRecord(item)
    decoded,    \* codec: result of formatRecordAsItemDto on phys
    partial,    \* codec: the field names of a Partial<SK>, in insertion order
    verdict,    \* codec: outcome of assertPartialOrderSKIsCorrect(partial)
    cpc,        \* codec: which step of the codec scenario has been taken
    table,      \* store: the physical records of one partition, ascending
    callerLimit,\* the limit the caller built the request with
    params,     \* the CommandInput owned by the Chain (this.params)
    inflight,   \* per caller: the command sent and the store's answer
    page,       \* the outcome of the run() that completed in the last step
    trav,       \* the getPartitionBatch pagination loop of a caller
    objs,       \* builder: the CommandInput objects that exist, by identity
    handles,    \* builder: the Query / Scan instances and the object each holds
    call        \* builder: the builder call made in the last step

vars == <<schema, item, phys, decoded, partial, verdict, cpc,
          table, callerLimit, params, inflight, page, trav,
          objs, handles, call>>

codecVars == <<item, phys, decoded, partial, verdict, cpc>>
pageVars  == <<table, callerLimit, params, inflight, page, trav>>
builderVars == <<objs, handles, call>>

\* no builder scenario is running
BuilderIdle ==
    /\ objs = <<>>
    /\ handles = <<>>
    /\ call = <<>>

----------------------------------------------------------------------------
(* Bounds of the model *)

\* longest value of one key part, in characters
MaxPartLen == 1
\* most key fields of a schema whose records go through the codec
MaxRecordFields == 4
\* most fields a caller supplies in a Partial<SK>
MaxSupplied == 5
\* most items in the partition
MaxItems == 3
\* largest limit a caller asks for
MaxLimit == 2
\* most items in the partition the pagination loop walks
MaxLoopItems == 6
\* largest limit the pagination loop asks for
MaxLoopLimit == 3
\* most commands one Chain sends
MaxRuns == 2
\* most builder calls made in one scenario
MaxCalls == 2
\* most predicates of one filter object
MaxPredicates == 2
\* most operators of one predicate
MaxOperators == 2
\* most attributes a caller asks project() for
MaxProjected == 1
\* items a partition holds beyond a whole number of pages of a table operation
MaxExtraItems == 2

----------------------------------------------------------------------------
(* Strings *)

Undef == <<"undefined">>
None  == "none"

\* the characters key parts are made of; "#" is the separator of the schemas
Chars == {"a", "#"}

RECURSIVE StringsUpTo(_)
StringsUpTo(n) ==
    IF n = 0 THEN {<<>>}
    ELSE LET shorter == StringsUpTo(n - 1)
         IN  shorter \cup {Append(s, c) : s \in shorter, c \in Chars}

\* the characters of the model in ASCII order
Alphabet == <<"#", "1", "2", "3", "4", "5", "6", "7", "8", "9", "a">>
Digits == SubSeq(Alphabet, 2, 10)

IsPrefix(p, s) == Len(p) <= Len(s) /\ SubSeq(s, 1, Len(p)) = p

\* String.prototype.split(sep) for a non-empty sep; cur is the segment so far
RECURSIVE SplitFrom(_, _, _)
SplitFrom(s, sep, cur) ==
    IF s = <<>> THEN <<cur>>
    ELSE IF IsPrefix(sep, s)
         THEN <<cur>> \o SplitFrom(SubSeq(s, Len(sep) + 1, Len(s)), sep, <<>>)
         ELSE SplitFrom(Tail(s), sep, Append(cur, Head(s)))

Split(s, sep) == SplitFrom(s, sep, <<>>)

\* Array.prototype.join(sep)
RECURSIVE Join(_, _)
Join(parts, sep) ==
    IF parts = <<>> THEN <<>>
    ELSE IF Len(parts) = 1 THEN parts[1]
         ELSE parts[1] \o sep \o Join(Tail(parts), sep)

\* parts[i] of a JavaScript array: undefined past the end
At(parts, i) == IF i \in 1..Len(parts) THEN parts[i] ELSE Undef

\* arr[i] of an array of field names: undefined past the end
NoName == "<undefined>"
NameAt(arr, i) == IF i \in 1..Len(arr) THEN arr[i] ELSE NoName

\* { ...a, ...b }: the properties of b win
Spread(a, b) ==
    [k \in DOMAIN a \cup DOMAIN b |-> IF k \in DOMAIN b THEN b[k] ELSE a[k]]

\* obj[prop] of a JavaScript object: undefined when the property is absent
Get(obj, prop) == IF prop \in DOMAIN obj THEN obj[prop] ELSE Undef

Range(s) == {s[i] : i \in 1..Len(s)}

\* Array.prototype.indexOf, 0-based, -1 when absent
IndexOf(arr, x) ==
    IF x \in Range(arr)
    THEN (CHOOSE i \in 1..Len(arr) :
             arr[i] = x /\ \A j \in 1..(i - 1) : arr[j] # x) - 1
    ELSE -1

----------------------------------------------------------------------------
(* Key schemas *)

NoSep == <<>>
NoKeyDef == [name |-> "", keys |-> <<>>, separator |-> NoSep]

KeyDef(name, keys, separator) ==
    [name |-> name, keys |-> keys, separator |-> separator]

\* the schemas of the repository's tests, with their attribute names
SchemaComposite ==
    [pk |-> KeyDef("pk", <<"tenantId", "userId">>, <<"#">>),
     hasSK |-> TRUE,
     sk |-> KeyDef("sk", <<"category", "orderId">>, <<"#">>)]
SchemaSingleNoSep ==
    [pk |-> KeyDef("pk", <<"tenantId">>, NoSep),
     hasSK |-> TRUE,
     sk |-> KeyDef("sk", <<"sortKey">>, NoSep)]
SchemaSameName ==
    [pk |-> KeyDef("timestamp", <<"timestamp">>, NoSep),
     hasSK |-> TRUE,
     sk |-> KeyDef("timestamp#count", <<"timestamp", "count">>, <<"#">>)]
SchemaNoSK ==
    [pk |-> KeyDef("pk", <<"id">>, NoSep),
     hasSK |-> FALSE,
     sk |-> NoKeyDef]
SchemaFiveParts ==
    [pk |-> KeyDef("pk", <<"tenantId", "userId">>, <<"#">>),
     hasSK |-> TRUE,
     sk |-> KeyDef("sk", <<"A", "B", "C", "D", "E">>, <<"#">>)]

\* new SchemaFormatter(keySchema) returns instead of throwing
SchemaFormatterAccepts(ks) ==
    /\ ~(Len(ks.pk.keys) > 1 /\ ks.pk.separator = NoSep)
    /\ ks.hasSK => ~(Len(ks.sk.keys) > 1 /\ ks.sk.separator = NoSep)

Schemas ==
    {ks \in {SchemaComposite, SchemaSingleNoSep, SchemaSameName, SchemaNoSK,
             SchemaFiveParts} : SchemaFormatterAccepts(ks)}

\* the logical key fields of a schema
KeyFields(ks) == Range(ks.pk.keys) \cup Range(ks.sk.keys)

----------------------------------------------------------------------------
(* SchemaFormatter: the codec *)

Ok(v)        == [ok |-> TRUE, val |-> v, err |-> "", arg |-> ""]
Throw(e, a)  == [ok |-> FALSE, val |-> <<>>, err |-> e, arg |-> a]

\* mustGet: the first field of def.keys that is undefined in obj, "" if none
FirstMissing(obj, keys) ==
    IF \E i \in 1..Len(keys) : Get(obj, keys[i]) = Undef
    THEN keys[CHOOSE i \in 1..Len(keys) :
                 /\ Get(obj, keys[i]) = Undef
                 /\ \A j \in 1..(i - 1) : Get(obj, keys[j]) # Undef]
    ELSE ""

formatKey(obj, def) ==
    LET sep == IF def.separator = NoSep THEN <<"#">> ELSE def.separator
        missing == FirstMissing(obj, def.keys)
    IN  IF missing # ""
        THEN Throw("KEY_PART_REQUIRED", missing)
        ELSE Ok(Join([i \in 1..Len(def.keys) |-> obj[def.keys[i]]], sep))

formatPK(ks, obj) == formatKey(obj, ks.pk)

formatSK(ks, obj) == formatKey(obj, ks.sk)

formatItemKeysDtoAsRecord(ks, obj) ==
    LET pkv == formatKey(obj, ks.pk)
        skv == formatKey(obj, ks.sk)
    IN  IF ~pkv.ok THEN pkv
        ELSE IF ~ks.hasSK THEN Ok([n \in {ks.pk.name} |-> pkv.val])
        ELSE IF ~skv.ok THEN skv
        ELSE Ok(Spread([n \in {ks.pk.name} |-> pkv.val],
                       [n \in {ks.sk.name} |-> skv.val]))

\* one side of formatRecordAsItemDto
DecodeSide(def, record) ==
    LET inRecord == record[def.name]
        valueParts == Split(inRecord, def.separator)
    IN  IF def.separator # NoSep
        THEN [k \in Range(def.keys) |->
                 At(valueParts, IndexOf(def.keys, k) + 1)]
        ELSE [k \in {def.name} |-> inRecord]

formatRecordAsItemDto(ks, record) ==
    LET pk == DecodeSide(ks.pk, record)
        sk == IF ks.hasSK THEN DecodeSide(ks.sk, record) ELSE <<>>
        names == {ks.pk.name} \cup (IF ks.hasSK THEN {ks.sk.name} ELSE {})
        data == [k \in DOMAIN record \ names |-> record[k]]
    IN  Spread(Spread(pk, sk), data)

\* Array.prototype.sort by the comparator indexOf(a) - indexOf(b), stable
RECURSIVE InsertByIndex(_, _, _)
InsertByIndex(sorted, k, schemaKeys) ==
    IF sorted = <<>> THEN <<k>>
    ELSE IF IndexOf(schemaKeys, k) < IndexOf(schemaKeys, Head(sorted))
         THEN <<k>> \o sorted
         ELSE <<Head(sorted)>> \o InsertByIndex(Tail(sorted), k, schemaKeys)

RECURSIVE SortByIndex(_, _)
SortByIndex(keys, schemaKeys) ==
    IF keys = <<>> THEN <<>>
    ELSE InsertByIndex(SortByIndex(SubSeq(keys, 1, Len(keys) - 1), schemaKeys),
                       keys[Len(keys)], schemaKeys)

\* FirstGap with the loop started at i = 2
FirstGapFromTwo(ordered, schemaKeys) ==
    LET bad == {i \in 2..(Len(schemaKeys) - 1) :
                   /\ i < Len(ordered)
                   /\ NameAt(ordered, i + 1) # schemaKeys[i + 1]}
    IN  IF bad = {} THEN -1 ELSE CHOOSE i \in bad : \A j \in bad : i <= j

\* the first i in 1..len-1 (0-based) at which the loop throws, -1 if it ends
FirstGap(ordered, schemaKeys) ==
    LET bad == {i \in 1..(Len(schemaKeys) - 1) :
                   /\ i < Len(ordered)
                   /\ NameAt(ordered, i + 1) # schemaKeys[i + 1]}
    IN  IF bad = {} THEN -1 ELSE CHOOSE i \in bad : \A j \in bad : i <= j

assertPartialOrderSKIsCorrect(ks, keysInSK) ==
    LET skKeysInSchema == IF ks.hasSK THEN ks.sk.keys ELSE <<>>
        orderedKeysInSK == SortByIndex(keysInSK, skKeysInSchema)
        gap == FirstGap(orderedKeysInSK, skKeysInSchema)
    IN  IF Len(keysInSK) = 0 THEN Throw("SK_EMPTY", "")
        ELSE IF orderedKeysInSK[1] # NameAt(skKeysInSchema, 1)
             THEN Throw("FIRST_KEY_NOT_INCLUDED_IN_SK", "")
        ELSE IF gap # -1
             THEN Throw("KEY_NOT_INCLUDED_IN_SK", skKeysInSchema[gap + 1])
        ELSE Ok(<<>>)

\* formatPartialOrderedSK(sk): keysInSK is Object.keys(sk), in the order the
\* caller inserted the fields
formatPartialOrderedSK(ks, keysInSK, sk) ==
    LET checked == assertPartialOrderSKIsCorrect(ks, keysInSK)
    IN  IF ~checked.ok THEN checked
        ELSE IF ~ks.hasSK THEN Throw("SK_NOT_DEFINED_IN_SCHEMA", "")
        ELSE formatKey(sk, [name |-> ks.sk.name, keys |-> keysInSK,
                            separator |-> ks.sk.separator])

----------------------------------------------------------------------------
(* The codec scenario: one record through formatItemKeysDtoAsRecord and     *)
(* formatRecordAsItemDto, or one Partial<SK> through the prefix validation. *)

\* every fully populated logical key record of a schema
KeyRecords(ks) == [KeyFields(ks) -> StringsUpTo(MaxPartLen)]

\* the field names a caller may put in a Partial<SK>: the sort parts of the
\* schema and one name the schema does not declare
SuppliedNames(ks) == Range(ks.sk.keys) \cup {"other"}

\* Object.keys(sk) of every Partial<SK>: distinct names in insertion order
RECURSIVE KeyLists(_, _)
KeyLists(names, n) ==
    IF n = 0 THEN {<<>>}
    ELSE LET shorter == KeyLists(names, n - 1)
         IN  shorter \cup {Append(l, k) : l \in shorter, k \in names}

Partials(ks) ==
    {l \in KeyLists(SuppliedNames(ks), MaxSupplied) :
        \A i, j \in 1..Len(l) : i # j => l[i] # l[j]}

\* the values of the fields of a Partial<SK>: the same string in every field,
\* or in every field a digit of its own
PartialValues(ks) ==
    {[k \in SuppliedNames(ks) |-> v] : v \in StringsUpTo(MaxPartLen)}
        \cup {[k \in SuppliedNames(ks) |-> <<Digits[IndexOf(ks.sk.keys, k) + 2]>>]}

\* the Partial<SK> of the scenario: the fields of partial with their values
PartialSK == [k \in Range(partial) |-> item[k]]

PageIdle ==
    /\ table = <<>>
    /\ callerLimit = 1
    /\ params = [Limit |-> 1, ExclusiveStartKey |-> None,
                 ScanIndexForward |-> <<>>, FilterExpression |-> None]
    /\ inflight = <<>>
    /\ page = <<>>
    /\ trav = None

InitCodec ==
    /\ schema \in Schemas
    /\ \/ /\ Cardinality(KeyFields(schema)) <= MaxRecordFields
          /\ item \in KeyRecords(schema)
          /\ partial = <<>>
          /\ cpc = "record"
       \/ /\ item \in PartialValues(schema)
          /\ partial \in Partials(schema)
          /\ cpc = "partial"
    /\ phys = None
    /\ decoded = None
    /\ verdict = None
    /\ PageIdle
    /\ BuilderIdle

\* formatItemKeysDtoAsRecord(item): what pivot(item) stores as the cursor
EncodeKeys ==
    /\ cpc = "record"
    /\ phys' = formatItemKeysDtoAsRecord(schema, item)
    /\ cpc' = "encoded"
    /\ UNCHANGED <<schema, item, decoded, partial, verdict>>
    /\ UNCHANGED pageVars
    /\ UNCHANGED builderVars

\* formatRecordAsItemDto(phys): what run() reports for a returned key
DecodeRecord ==
    /\ cpc = "encoded"
    /\ phys.ok
    /\ decoded' = formatRecordAsItemDto(schema, phys.val)
    /\ cpc' = "decoded"
    /\ UNCHANGED <<schema, item, phys, partial, verdict>>
    /\ UNCHANGED pageVars
    /\ UNCHANGED builderVars

\* assertPartialOrderSKIsCorrect(partial)
AssertPartialOrder ==
    /\ cpc = "partial"
    /\ verdict' = assertPartialOrderSKIsCorrect(schema, partial)
    /\ cpc' = "validated"
    /\ UNCHANGED <<schema, item, phys, decoded, partial>>
    /\ UNCHANGED pageVars
    /\ UNCHANGED builderVars

\* formatPartialOrderedSK(partial)
FormatPartialOrderedSK ==
    /\ cpc = "partial"
    /\ phys' = formatPartialOrderedSK(schema, partial, PartialSK)
    /\ cpc' = "formatted"
    /\ UNCHANGED <<schema, item, decoded, partial, verdict>>
    /\ UNCHANGED pageVars
    /\ UNCHANGED builderVars

NextCodec ==
    EncodeKeys \/ DecodeRecord \/ AssertPartialOrder \/ FormatPartialOrderedSK

SpecCodec == InitCodec /\ [][NextCodec]_vars

----------------------------------------------------------------------------
(* Claims about the codec, checked under SpecCodec *)

\* C8: decoding the encoded physical key of a fully populated logical key
\* record returns exactly that record.
C8_RoundTrip == cpc = "decoded" => decoded = item

\* the sides of the schema that have no separator configured
SidesWithoutSeparator ==
    {def \in {schema.pk} \cup (IF schema.hasSK THEN {schema.sk} ELSE {}) :
        def.separator = NoSep}

\* C9: for a side without separator, decode maps the whole physical key
\* string onto the single declared part name of that side.
C9_NoSeparatorMapsToPart ==
    cpc = "decoded" =>
        \A def \in SidesWithoutSeparator :
            DecodeSide(def, phys.val) = [k \in {def.keys[1]} |-> phys.val[def.name]]

\* the supplied fields are exactly the first n declared sort parts, n >= 1
IsNonEmptyPrefix(supplied, declared) ==
    \E n \in 1..Len(declared) : Range(supplied) = {declared[i] : i \in 1..n}

\* C10: the validation accepts a supplied set of sort-key fields if and only
\* if it is a non-empty contiguous prefix of the declared part order.
C10_AcceptsExactlyPrefixes ==
    cpc = "validated" =>
        (verdict.ok <=>
            IsNonEmptyPrefix(partial, IF schema.hasSK THEN schema.sk.keys ELSE <<>>))

\* a prefix of three parts, listed out of the declared order, was accepted
C10_Witness ==
    /\ cpc = "validated"
    /\ verdict.ok
    /\ Len(partial) >= 3
    /\ partial[1] # schema.sk.keys[1]

\* the verdict on the Partial<SK> whose fields are exactly names
FailsNaming(names, part) ==
    (cpc = "validated" /\ schema = SchemaFiveParts /\ Range(partial) = names)
        => (~verdict.ok /\ verdict.arg = part)

\* C11 (as stated): with sort parts [A,B,C,D,E], supplying {B}, {A,C} or
\* {A,B,D} fails with an error that carries the name of the first missing
\* contiguous part: A, B and C.
C11_ErrorNamesFirstMissingPart ==
    /\ FailsNaming({"B"}, "A")
    /\ FailsNaming({"A", "C"}, "B")
    /\ FailsNaming({"A", "B", "D"}, "C")

\* C11 (amended): supplying {B} fails with the error "first key not included",
\* which carries no part name; supplying {A,C} or {A,B,D} fails with the error
\* "key not included" that carries the first missing contiguous part, B and C.
C11_FirstKeyErrorThenNamedPart ==
    /\ (cpc = "validated" /\ schema = SchemaFiveParts /\ Range(partial) = {"B"})
          => verdict = Throw("FIRST_KEY_NOT_INCLUDED_IN_SK", "")
    /\ (cpc = "validated" /\ schema = SchemaFiveParts
           /\ Range(partial) = {"A", "C"})
          => verdict = Throw("KEY_NOT_INCLUDED_IN_SK", "B")
    /\ (cpc = "validated" /\ schema = SchemaFiveParts
           /\ Range(partial) = {"A", "B", "D"})
          => verdict = Throw("KEY_NOT_INCLUDED_IN_SK", "C")

\* {A,B,D}, listed as D, B, A, was rejected
C11_Witness ==
    /\ cpc = "validated"
    /\ schema = SchemaFiveParts
    /\ partial = <<"D", "B", "A">>
    /\ ~verdict.ok

\* C12: for a validated prefix, formatPartialOrderedSK returns the supplied
\* parts joined with the separator in the schema's declared order, whatever the
\* order the caller listed the fields in.
C12_PartialEncodesInSchemaOrder ==
    (cpc = "formatted" /\ assertPartialOrderSKIsCorrect(schema, partial).ok)
        => phys = formatKey(PartialSK,
                     [name |-> schema.sk.name,
                      keys |-> SubSeq(schema.sk.keys, 1, Len(partial)),
                      separator |-> schema.sk.separator])

\* the same for the prefixes listed in the declared order
PartialEncodesWhenListedInOrder ==
    (/\ cpc = "formatted"
     /\ Len(partial) <= Len(schema.sk.keys)
     /\ partial = SubSeq(schema.sk.keys, 1, Len(partial)))
        => C12_PartialEncodesInSchemaOrder

----------------------------------------------------------------------------
(* The store: one partition of a table, read by Query.  An optional value   *)
(* (a cursor, a continuation key) is <<>> when absent and <<v>> when v.     *)

CharRank(c) == CHOOSE i \in 1..Len(Alphabet) : Alphabet[i] = c

\* s < t as DynamoDB orders string keys
RECURSIVE StrLess(_, _)
StrLess(s, t) ==
    IF t = <<>> THEN FALSE
    ELSE IF s = <<>> THEN TRUE
    ELSE IF Head(s) = Head(t) THEN StrLess(Tail(s), Tail(t))
    ELSE CharRank(Head(s)) < CharRank(Head(t))

\* the logical item number i of the partition: every key part is "a" except
\* the last sort part, which numbers the item
LogicalItem(ks, i) ==
    [k \in KeyFields(ks) |->
        IF ks.hasSK /\ k = ks.sk.keys[Len(ks.sk.keys)]
        THEN <<Digits[i]>> ELSE <<"a">>]

\* the physical record Table.put stores for it, with one data attribute
PhysicalItem(ks, i, status) ==
    Spread(formatItemKeysDtoAsRecord(ks, LogicalItem(ks, i)).val,
           [n \in {"status"} |-> status])

\* a table without sort key holds one item per partition key
MaxItemsOf(ks, most) == IF ks.hasSK THEN most ELSE 1

\* the partitions of the model: T items in ascending key order, of which all,
\* none or only the last match the filter status = "x"
TablesOfSize(ks, T) ==
    {[i \in 1..T |-> PhysicalItem(ks, i, IF i \in m THEN <<"x">> ELSE <<"y">>)] :
        m \in {1..T, {}, {T}}}

Tables(ks, most) ==
    UNION {TablesOfSize(ks, T) : T \in 0..MaxItemsOf(ks, most)}

SortKeyOf(ks, record) == IF ks.hasSK THEN record[ks.sk.name] ELSE <<>>

KeysOf(ks, record) ==
    [n \in {ks.pk.name} \cup (IF ks.hasSK THEN {ks.sk.name} ELSE {}) |->
        record[n]]

Reverse(s) == [i \in 1..Len(s) |-> s[Len(s) + 1 - i]]

\* the items of seq that satisfy Keep(_), in order
RECURSIVE SelectIdx(_, _, _)
SelectIdx(seq, keep, i) ==
    IF i > Len(seq) THEN <<>>
    ELSE (IF i \in keep THEN <<seq[i]>> ELSE <<>>) \o SelectIdx(seq, keep, i + 1)

\* Query: the items after ExclusiveStartKey in the asked order, at most Limit
\* of them evaluated, the filter applied to those; LastEvaluatedKey is the
\* last evaluated item when the Limit stopped the read
StoreQuery(ks, tbl, cmd) ==
    LET ordered == IF cmd.ScanIndexForward THEN tbl ELSE Reverse(tbl)
        start == cmd.ExclusiveStartKey
        after == {i \in 1..Len(ordered) :
                    \/ start = <<>>
                    \/ IF cmd.ScanIndexForward
                       THEN StrLess(SortKeyOf(ks, start[1]), SortKeyOf(ks, ordered[i]))
                       ELSE StrLess(SortKeyOf(ks, ordered[i]), SortKeyOf(ks, start[1]))}
        candidates == SelectIdx(ordered, after, 1)
        n == IF Len(candidates) < cmd.Limit THEN Len(candidates) ELSE cmd.Limit
        evaluated == SubSeq(candidates, 1, n)
        matching == {i \in 1..n :
                        \/ cmd.FilterExpression = None
                        \/ evaluated[i]["status"] = <<"x">>}
    IN  [Items |-> SelectIdx(evaluated, matching, 1),
         LastEvaluatedKey |->
            IF n = cmd.Limit /\ n > 0 THEN <<KeysOf(ks, evaluated[n])>> ELSE <<>>]

----------------------------------------------------------------------------
(* Chain / Query: the request and its run *)

\* Table.query(qparams): the CommandInput of a new Query
query(limit) ==
    [Limit |-> limit, ExclusiveStartKey |-> <<>>,
     ScanIndexForward |-> <<>>, FilterExpression |-> None]

sortAscending(p) == [p EXCEPT !.ScanIndexForward = <<TRUE>>]

sortDescending(p) == [p EXCEPT !.ScanIndexForward = <<FALSE>>]

\* Chain.pivot without IndexName: the request with the cursor set, or the
\* error formatItemKeysDtoAsRecord throws
pivot(ks, p, key) ==
    LET startKey == formatItemKeysDtoAsRecord(ks, key)
    IN  IF startKey.ok
        THEN Ok([p EXCEPT !.ExclusiveStartKey = <<startKey.val>>])
        ELSE startKey

\* the Limit of a request built without qparams.limit: undefined, and NaN once
\* run() has added 1 to it; it equals no number
NaN == -1

\* the first statement of run()
IncrementLimit(p) == [p EXCEPT !.Limit = IF @ = NaN THEN NaN ELSE @ + 1]

buildQueryCommandInput(p) ==
    [Limit |-> p.Limit,
     ExclusiveStartKey |-> p.ExclusiveStartKey,
     ScanIndexForward |-> (p.ScanIndexForward = <<TRUE>>),
     FilterExpression |-> p.FilterExpression]

\* formatEmptyPaginationResult that reports no key
formatEmptyWithoutKey(direction, lastEvaluatedKey) ==
    [items |-> <<>>,
     lastEvaluatedKey |-> <<>>,
     firstEvaluatedKey |-> <<>>,
     count |-> 0,
     hasNext |-> lastEvaluatedKey # <<>>,
     hasPrevious |-> lastEvaluatedKey # <<>>,
     direction |-> direction]

formatEmptyPaginationResult(direction, lastEvaluatedKey) ==
    [items |-> <<>>,
     lastEvaluatedKey |-> lastEvaluatedKey,
     firstEvaluatedKey |-> lastEvaluatedKey,
     count |-> 0,
     hasNext |-> lastEvaluatedKey # <<>>,
     hasPrevious |-> lastEvaluatedKey # <<>>,
     direction |-> direction]

\* items.length === limit
ReachedLimit(items, limit) == Len(items) = limit

\* ItemsAfterPop without the pop
ItemsWithoutPop(items, limit) == items

\* if (items.length === limit) items.pop()
ItemsAfterPop(items, limit) ==
    IF ReachedLimit(items, limit)
    THEN SubSeq(items, 1, Len(items) - 1) ELSE items

formatPaginationResult(items, limit, direction, lastEvaluatedKey, oldLastEvaluatedKey) ==
    LET kept == ItemsAfterPop(items, limit)
    IN  IF Len(items) = 0
        THEN formatEmptyPaginationResult(direction, lastEvaluatedKey)
        ELSE [items |-> kept,
              lastEvaluatedKey |->
                  IF kept = <<>> THEN <<>> ELSE <<kept[Len(kept)]>>,
              firstEvaluatedKey |->
                  IF kept = <<>> THEN <<>> ELSE <<kept[1]>>,
              count |-> Len(kept),
              hasNext |-> (lastEvaluatedKey # <<>> \/ ReachedLimit(items, limit)),
              hasPrevious |-> oldLastEvaluatedKey # <<>>,
              direction |-> direction]

\* run() from the statement after the await: p is this.params as it is when
\* the promise resolves, result the store's answer
RunDerive(ks, p, result) ==
    LET items == [i \in 1..Len(result.Items) |->
                     formatRecordAsItemDto(ks, result.Items[i])]
        newLastEvaluatedKey ==
            IF result.LastEvaluatedKey # <<>>
            THEN <<formatRecordAsItemDto(ks, result.LastEvaluatedKey[1])>>
            ELSE <<>>
        oldLastEvaluatedKey ==
            IF p.ExclusiveStartKey # <<>>
            THEN <<formatRecordAsItemDto(ks, p.ExclusiveStartKey[1])>>
            ELSE <<>>
    IN  formatPaginationResult(
            items, p.Limit,
            IF p.ScanIndexForward = <<TRUE>> THEN "forward" ELSE "backward",
            newLastEvaluatedKey, oldLastEvaluatedKey)

----------------------------------------------------------------------------
(* One Query shared by two callers: builder calls and runs interleave at    *)
(* the await of run().                                                      *)

Callers == {1, 2}

CodecIdle ==
    /\ item = [k \in KeyFields(schema) |-> <<>>]
    /\ phys = None
    /\ decoded = None
    /\ partial = <<>>
    /\ verdict = None
    /\ cpc = "idle"

\* the keys a caller can pivot on: the items earlier pages reported
Cursors == {formatRecordAsItemDto(schema, table[i]) : i \in 1..Len(table)}

Init ==
    /\ schema \in Schemas
    /\ CodecIdle
    /\ BuilderIdle
    /\ table \in Tables(schema, MaxItems)
    /\ callerLimit \in 1..MaxLimit
    /\ \E f \in {None, "status = x"} :
          params = [query(callerLimit) EXCEPT !.FilterExpression = f]
    /\ inflight = [c \in Callers |-> <<>>]
    /\ page = <<>>
    /\ trav = None

Pivot(key) ==
    /\ pivot(schema, params, key).ok
    /\ params' = pivot(schema, params, key).val
    /\ page' = <<>>
    /\ UNCHANGED <<schema, table, callerLimit, inflight, trav>>
    /\ UNCHANGED codecVars
    /\ UNCHANGED builderVars

SortAscending ==
    /\ params' = sortAscending(params)
    /\ page' = <<>>
    /\ UNCHANGED <<schema, table, callerLimit, inflight, trav>>
    /\ UNCHANGED codecVars
    /\ UNCHANGED builderVars

SortDescending ==
    /\ params' = sortDescending(params)
    /\ page' = <<>>
    /\ UNCHANGED <<schema, table, callerLimit, inflight, trav>>
    /\ UNCHANGED codecVars
    /\ UNCHANGED builderVars

\* run() up to the await: the limit is incremented in place, the command is
\* built from this.params and sent.  asked is the sort order the request holds
\* when it is sent, alone the page this run resolves with when nothing else
\* touches the request before it resumes.
RunSend(c) ==
    /\ inflight[c] = <<>>
    /\ params.Limit < callerLimit + MaxRuns
    /\ LET cmd == buildQueryCommandInput(IncrementLimit(params))
           result == StoreQuery(schema, table, cmd)
       IN  /\ params' = IncrementLimit(params)
           /\ inflight' = [inflight EXCEPT ![c] =
                  <<[cmd |-> cmd, result |-> result,
                     asked |-> params.ScanIndexForward,
                     alone |-> RunDerive(schema, IncrementLimit(params), result)]>>]
    /\ page' = <<>>
    /\ UNCHANGED <<schema, table, callerLimit, trav>>
    /\ UNCHANGED codecVars
    /\ UNCHANGED builderVars

\* run() from the await on, the store having answered
RunResolve(c) ==
    /\ inflight[c] # <<>>
    /\ page' =
           <<[caller |-> c, outcome |-> "resolved",
              result |-> <<RunDerive(schema, params, inflight[c][1].result)>>,
              cmd |-> inflight[c][1].cmd,
              store |-> inflight[c][1].result,
              asked |-> inflight[c][1].asked,
              alone |-> inflight[c][1].alone]>>
    /\ inflight' = [inflight EXCEPT ![c] = <<>>]
    /\ UNCHANGED <<schema, table, callerLimit, params, trav>>
    /\ UNCHANGED codecVars
    /\ UNCHANGED builderVars

\* run() when send rejects: the store's error propagates to the caller
RunReject(c) ==
    /\ inflight[c] # <<>>
    /\ page' =
           <<[caller |-> c, outcome |-> "rejected",
              result |-> <<>>,
              cmd |-> inflight[c][1].cmd,
              store |-> inflight[c][1].result,
              asked |-> inflight[c][1].asked,
              alone |-> inflight[c][1].alone]>>
    /\ inflight' = [inflight EXCEPT ![c] = <<>>]
    /\ UNCHANGED <<schema, table, callerLimit, params, trav>>
    /\ UNCHANGED codecVars
    /\ UNCHANGED builderVars

Next ==
    \/ \E key \in Cursors : Pivot(key)
    \/ SortAscending
    \/ SortDescending
    \/ \E c \in Callers : RunSend(c)
    \/ \E c \in Callers : RunResolve(c)
    \/ \E c \in Callers : RunReject(c)

Spec == Init /\ [][Next]_vars

----------------------------------------------------------------------------
(* Claims about one page and about the request, checked under Spec *)

Resolved == page # <<>> /\ page[1].outcome = "resolved"

\* the items the store returned for the page, decoded, without the last one
AllButSentinel(storeItems) ==
    [i \in 1..(Len(storeItems) - 1) |->
        formatRecordAsItemDto(schema, storeItems[i])]

\* C3: hasPrevious is true on a page exactly when the page was fetched with a
\* start cursor, whether the page is empty or not.
C3_HasPreviousIffCursor ==
    Resolved =>
        page[1].result[1].hasPrevious = (page[1].cmd.ExclusiveStartKey # <<>>)

\* C4: on a non-empty page of a request built with caller limit N, hasNext is
\* true exactly when the store returned a continuation key or N+1 items; when
\* it returned N+1 items the last is dropped, and count is the number of
\* reported items.
C4_OverFetchDerivation ==
    (Resolved /\ page[1].store.Items # <<>>) =>
        LET r == page[1].result[1]
            got == page[1].store
        IN  /\ r.hasNext = (got.LastEvaluatedKey # <<>>
                             \/ Len(got.Items) = callerLimit + 1)
            /\ Len(got.Items) = callerLimit + 1 =>
                   r.items = AllButSentinel(got.Items)
            /\ r.count = Len(r.items)

\* C5: every command a request built with caller limit N sends carries the
\* limit N+1, also when the request is run again.
C5_SendsLimitPlusOne ==
    \A c \in Callers :
        inflight[c] # <<>> => inflight[c][1].cmd.Limit = callerLimit + 1

\* C6: a step of run() (sending the command, resolving or rejecting) changes
\* no field of the request.
C6_RunLeavesRequestUnchanged ==
    [][inflight' # inflight => params' = params]_vars

\* C7: a run that interleaves with another caller's calls at the await
\* resolves with the page it resolves with when run alone.
PageShape(r) ==
    [items |-> r.items, count |-> r.count,
     hasNext |-> r.hasNext, hasPrevious |-> r.hasPrevious]

C7_ConcurrentPageAsAlone ==
    Resolved => PageShape(page[1].result[1]) = PageShape(page[1].alone)

\* C22: a page of a request on which a sort order was asked reports forward
\* when the order asked at the time of sending was ascending and backward when
\* it was descending, and the command sent asks the store for that order.
C22_DirectionAsRequested ==
    (Resolved /\ page[1].asked # <<>>) =>
        /\ page[1].cmd.ScanIndexForward = page[1].asked[1]
        /\ page[1].result[1].direction =
               IF page[1].asked[1] THEN "forward" ELSE "backward"

\* the same for the page the run resolves with when nothing interleaves
DirectionAsRequestedWhenAlone ==
    (Resolved /\ page[1].asked # <<>>) =>
        /\ page[1].cmd.ScanIndexForward = page[1].asked[1]
        /\ page[1].alone.direction =
               IF page[1].asked[1] THEN "forward" ELSE "backward"

\* the key of item i of the partition as a page reports it
KeyAt(i) == formatRecordAsItemDto(schema, KeysOf(schema, table[i]))

\* the position in the partition of the item a reported key names, 0 if none
PositionOf(key) ==
    LET at == {i \in 1..Len(table) :
                  \A f \in DOMAIN KeyAt(i) : f \in DOMAIN key /\ key[f] = KeyAt(i)[f]}
    IN  IF at = {} THEN 0 ELSE CHOOSE i \in at : TRUE

\* the position of the item a start cursor names
CursorPosition(startKey) ==
    CHOOSE i \in 1..Len(table) : KeysOf(schema, table[i]) = startKey

NonEmptyBackwardPageHasNext ==
    /\ Resolved
    /\ page[1].result[1].hasNext
    /\ page[1].result[1].items # <<>>
    /\ page[1].cmd.ExclusiveStartKey # <<>>
    /\ ~page[1].cmd.ScanIndexForward

----------------------------------------------------------------------------
(* The pagination loop: a caller fetches forward pages, each from the       *)
(* lastEvaluatedKey of the page before, until a page reports hasNext false. *)
(* In mode "batch" every page is one call of Table.getPartitionBatch, which *)
(* builds a new Query; in mode "chain" the caller keeps one Query and calls *)
(* pivot(lastKey).run() on it.                                              *)

\* no loop of the model needs more pages than this
MaxPages == MaxLoopItems + 2

\* the partition as the caller should see it
DecodedTable == [i \in 1..Len(table) |-> formatRecordAsItemDto(schema, table[i])]

\* run() of a single caller: nothing interleaves at the await
RunAlone(ks, tbl, p) ==
    RunDerive(ks, IncrementLimit(p),
              StoreQuery(ks, tbl, buildQueryCommandInput(IncrementLimit(p))))

\* the request the loop runs for its next page: a new Query in mode "batch",
\* the kept one in mode "chain", pivoted on the cursor when there is one
NextRequest ==
    LET q == IF trav.mode = "batch"
             THEN sortAscending(query(callerLimit)) ELSE params
    IN  IF trav.cursor = <<>> THEN Ok(q) ELSE pivot(schema, q, trav.cursor[1])

InitTraverse ==
    /\ schema \in Schemas
    /\ CodecIdle
    /\ BuilderIdle
    /\ table \in Tables(schema, MaxLoopItems)
    /\ callerLimit \in 1..MaxLoopLimit
    /\ params = sortAscending(query(callerLimit))
    /\ inflight = [c \in Callers |-> <<>>]
    /\ page = <<>>
    /\ \E m \in {"batch", "chain"} :
          trav = [mode |-> m, status |-> "running", cursor |-> <<>>,
                  visited |-> <<>>, pages |-> 0, last |-> <<>>]

\* one iteration of the loop whose page fetch returns
FetchPage ==
    /\ trav.status = "running"
    /\ trav.pages < MaxPages
    /\ NextRequest.ok
    /\ LET r == RunAlone(schema, table, NextRequest.val)
       IN  /\ trav' = [trav EXCEPT
                  !.status = IF r.hasNext THEN "running" ELSE "done",
                  !.cursor = r.lastEvaluatedKey,
                  !.visited = @ \o r.items,
                  !.pages = @ + 1,
                  !.last = <<r>>]
           /\ params' = IF trav.mode = "chain"
                        THEN IncrementLimit(NextRequest.val) ELSE params
    /\ UNCHANGED <<schema, table, callerLimit, inflight, page>>
    /\ UNCHANGED codecVars
    /\ UNCHANGED builderVars

\* one iteration of the loop whose pivot throws: the loop ends with the error
FetchThrows ==
    /\ trav.status = "running"
    /\ trav.pages < MaxPages
    /\ ~NextRequest.ok
    /\ trav' = [trav EXCEPT !.status = "threw"]
    /\ UNCHANGED <<schema, table, callerLimit, params, inflight, page>>
    /\ UNCHANGED codecVars
    /\ UNCHANGED builderVars

NextTraverse == FetchPage \/ FetchThrows

SpecTraverse == InitTraverse /\ [][NextTraverse]_vars

\* C1: when the loop has ended, it has visited every item of the partition
\* exactly once, in ascending key order; and it never visits anything else.
C1_VisitsEveryItemOnce ==
    /\ trav.visited = SubSeq(DecodedTable, 1, Len(trav.visited))
    /\ trav.status \in {"done", "threw"} => trav.visited = DecodedTable

\* the same for the loops in which no pivot throws
VisitsEveryItemOnceUnlessThrown ==
    trav.status # "threw" => C1_VisitsEveryItemOnce

\* C2: the page of the loop that delivers the last item of the partition
\* reports hasNext = FALSE.
C2_FinalPageHasNoNext ==
    (/\ trav.last # <<>>
     /\ trav.last[1].items # <<>>
     /\ trav.last[1].items[Len(trav.last[1].items)] = DecodedTable[Len(table)])
        => ~trav.last[1].hasNext

\* a final page that is not the first page and is full was delivered
C2_Witness ==
    /\ trav.pages >= 2
    /\ trav.last # <<>>
    /\ Len(trav.last[1].items) >= callerLimit
    /\ trav.last[1].items[Len(trav.last[1].items)] = DecodedTable[Len(table)]
    /\ trav.status = "done"

----------------------------------------------------------------------------
(* The request builder: Chain.filterRaw, Chain.filter, Chain.project and    *)
(* the range calls of Query.  Expressions and placeholders are strings.     *)

DecimalDigits == <<"0">> \o Digits

\* Number.prototype.toString of a non-negative integer
RECURSIVE NumToString(_)
NumToString(n) ==
    IF n < 10 THEN <<DecimalDigits[n + 1]>>
    ELSE NumToString(n \div 10) \o <<DecimalDigits[(n % 10) + 1]>>

\* the characters the class [a-zA-Z0-9] matches
Alphanumerics ==
    {"a", "b", "c", "d", "e", "f", "g", "h", "i", "j", "k", "l", "m", "n", "o",
     "p", "q", "r", "s", "t", "u", "v", "w", "x", "y", "z"}
        \cup {"A", "B", "C", "D", "E", "N", "S"} \cup Range(DecimalDigits)

IsAlphanumeric(c) == c \in Alphanumerics

\* s.replace(/c/g, to) for a one-character pattern
ReplaceAll(s, c, to) == [i \in 1..Len(s) |-> IF s[i] = c THEN to ELSE s[i]]

\* operator.replace(/[^a-zA-Z0-9]/g, '')
StripNonAlphanumeric(s) == SelectSeq(s, IsAlphanumeric)

\* obj[k] = v
Put(obj, k, v) == [x \in DOMAIN obj \cup {k} |-> IF x = k THEN v ELSE obj[x]]

EmptyObject == [x \in {} |-> <<>>]

\* { ...a, ...b } of two optional objects: spreading undefined adds nothing
SpreadOptional(a, b) ==
    Spread(IF a = <<>> THEN EmptyObject ELSE a[1],
           IF b = <<>> THEN EmptyObject ELSE b[1])

\* a FilterValue as the AttributeValue filter() stores for it
ToAttributeValue(value) ==
    IF value.type = "number" THEN [N |-> NumToString(value.num)]
    ELSE IF value.type = "boolean" THEN [BOOL |-> value.bool]
    ELSE IF value.type = "null" THEN [NULL |-> TRUE]
    ELSE [S |-> value.str]

\* the texts of the templates
TextAnd == <<" ", "A", "N", "D", " ">>
TextAndOpen == <<" ", "A", "N", "D", " ", "(">>
TextVal == <<":", "v", "a", "l", "_">>
TextAttr == <<"#", "a", "t", "t", "r", "_">>
TextComma == <<",", " ">>
TextPk == <<"#", "p", "k">>
TextPkValue == <<":", "p", "k">>
TextSk == <<"#", "s", "k">>
TextSkValue == <<":", "s", "k">>
TextLow == <<":", "l", "o", "w">>
TextHigh == <<":", "h", "i", "g", "h">>
TextBeginsWith ==
    <<" ", "A", "N", "D", " ", "b", "e", "g", "i", "n", "s", "_", "w", "i", "t",
      "h", "(", "#", "s", "k", ",", " ", ":", "s", "k", ")">>
TextBetween ==
    <<" ", "A", "N", "D", " ", "#", "s", "k", " ", "b", "e", "t", "w", "e", "e",
      "n", " ", ":", "l", "o", "w", " ", "a", "n", "d", " ", ":", "h", "i", "g",
      "h">>

\* the characters of the attribute names of the schemas
NameText(name) ==
    CASE name = "pk" -> <<"p", "k">>
      [] name = "sk" -> <<"s", "k">>
      [] name = "timestamp" -> <<"t", "i", "m", "e", "s", "t", "a", "m", "p">>
      [] name = "timestamp#count" ->
            <<"t", "i", "m", "e", "s", "t", "a", "m", "p", "#",
              "c", "o", "u", "n", "t">>
      [] OTHER -> <<name>>

\* a value a JavaScript condition treats as false: undefined or ''
Falsy(opt) == opt = <<>> \/ opt[1] = <<>>

filterRaw(p, filter) ==
    [p EXCEPT
       !.FilterExpression =
           IF Falsy(p.FilterExpression) THEN <<filter.FilterExpression>>
           ELSE <<p.FilterExpression[1] \o TextAndOpen
                    \o filter.FilterExpression \o <<")">> >>,
       !.ExpressionAttributeNames =
           IF p.ExpressionAttributeNames = <<>> THEN <<EmptyObject>>
           ELSE <<SpreadOptional(p.ExpressionAttributeNames,
                                 filter.ExpressionAttributeNames)>>,
       !.ExpressionAttributeValues =
           IF p.ExpressionAttributeValues = <<>>
           THEN filter.ExpressionAttributeValues
           ELSE <<SpreadOptional(p.ExpressionAttributeValues,
                                 filter.ExpressionAttributeValues)>>]

\* Defined with undefined taken for a value
DefinedAlways(value) == TRUE

\* value !== undefined
Defined(value) == value.type # "undefined"

\* the value placeholder of one operator of a field
OperatorValuePlaceholder(safeKey, counter, operator) ==
    TextVal \o safeKey \o <<"_">> \o NumToString(counter) \o <<"_">>
        \o StripNonAlphanumeric(operator)

\* for (const op in condObj): acc holds expressionParts and values
RECURSIVE OperatorLoop(_, _, _, _, _)
OperatorLoop(condObj, namePlaceholder, safeKey, counter, acc) ==
    IF condObj = <<>> THEN acc
    ELSE LET operator == Head(condObj).op
             value == Head(condObj).value
             valuePlaceholder ==
                 OperatorValuePlaceholder(safeKey, counter, operator)
             next ==
                 IF Defined(value)
                 THEN [acc EXCEPT
                         !.expressionParts = Append(@,
                             namePlaceholder \o <<" ">> \o operator \o <<" ">>
                                 \o valuePlaceholder),
                         !.values = Put(@, valuePlaceholder,
                                        ToAttributeValue(value))]
                 ELSE acc
         IN  OperatorLoop(Tail(condObj), namePlaceholder, safeKey, counter, next)

\* for (const key in filterObject): acc holds expressionParts, names, values
\* and counter
RECURSIVE FilterLoop(_, _)
FilterLoop(filterObject, acc) ==
    IF filterObject = <<>> THEN acc
    ELSE LET key == Head(filterObject).key
             condition == Head(filterObject).condition
             safeKey == ReplaceAll(key, ".", "_")
             namePlaceholder ==
                 <<"#">> \o safeKey \o <<"_">> \o NumToString(acc.counter)
             named == [acc EXCEPT !.names = Put(@, namePlaceholder, key)]
             valuePlaceholder ==
                 TextVal \o safeKey \o <<"_">> \o NumToString(acc.counter)
             next ==
                 IF ~Defined(condition.value) THEN acc
                 ELSE IF condition.kind = "operators"
                 THEN [OperatorLoop(condition.ops, namePlaceholder, safeKey,
                                    acc.counter, named)
                          EXCEPT !.counter = @ + 1]
                 ELSE [named EXCEPT
                         !.expressionParts = Append(@,
                             namePlaceholder \o <<" ", "=", " ">>
                                 \o valuePlaceholder),
                         !.values = Put(@, valuePlaceholder,
                                        ToAttributeValue(condition.value)),
                         !.counter = @ + 1]
         IN  FilterLoop(Tail(filterObject), next)

\* what the loop of filter() has collected when it ends
FilterParts(filterObject) ==
    FilterLoop(filterObject,
               [expressionParts |-> <<>>, names |-> EmptyObject,
                values |-> EmptyObject, counter |-> 0])

filter(p, filterObject) ==
    LET built == FilterParts(filterObject)
    IN  IF Len(built.expressionParts) > 0
        THEN filterRaw(p,
                 [FilterExpression |-> Join(built.expressionParts, TextAnd),
                  ExpressionAttributeNames |-> <<built.names>>,
                  ExpressionAttributeValues |-> <<built.values>>])
        ELSE p

\* AttributesOf with the sort attribute forgotten
AttributesWithoutSortKey(ks, projectDto) ==
    <<NameText(ks.pk.name)>> \o projectDto

\* the attributes project() lists: the key attributes, then the requested
AttributesOf(ks, projectDto) ==
    <<NameText(ks.pk.name)>>
        \o (IF ks.hasSK THEN <<NameText(ks.sk.name)>> ELSE <<>>)
        \o projectDto

\* the name placeholder of the attribute project() lists at position counter
ProjectPlaceholder(attr, counter) ==
    TextAttr \o ReplaceAll(ReplaceAll(attr, ".", "_"), "#", "0")
        \o <<"_">> \o NumToString(counter)

project(ks, p, projectDto) ==
    LET attributes == AttributesOf(ks, projectDto)
        projectionParts ==
            [i \in 1..Len(attributes) |-> ProjectPlaceholder(attributes[i], i - 1)]
        names == [ph \in Range(projectionParts) |->
                     attributes[CHOOSE i \in 1..Len(attributes) :
                                    projectionParts[i] = ph]]
    IN  [p EXCEPT
           !.ProjectionExpression = <<Join(projectionParts, TextComma)>>,
           !.ExpressionAttributeNames =
               <<SpreadOptional(p.ExpressionAttributeNames, <<names>>)>>]

\* the outcome of a range call: this.params as the call leaves it, and the
\* error it throws, if any
Returned(p) == [params |-> p, thrown |-> <<>>]
Thrown(p, err) == [params |-> p, thrown |-> <<err>>]

\* the first statements of every range call: the tables are created when
\* missing and '#sk' is bound to the sort attribute
BindSk(ks, p) ==
    [p EXCEPT
       !.ExpressionAttributeNames =
           <<Put(IF @ = <<>> THEN EmptyObject ELSE @[1],
                 TextSk, NameText(ks.sk.name))>>,
       !.ExpressionAttributeValues = IF @ = <<>> THEN <<EmptyObject>> ELSE @]

\* Query.compare; the parts of a key are strings, so ':sk' is bound as S
compare(ks, p, skparams, operator) ==
    IF ~ks.hasSK THEN Thrown(p, "SK_NOT_DEFINED_IN_SCHEMA")
    ELSE LET bound == BindSk(ks, p)
             skValue == formatPartialOrderedSK(ks, skparams.keys, skparams.vals)
         IN  IF ~skValue.ok THEN Thrown(bound, skValue.err)
             ELSE Returned([bound EXCEPT
                    !.ExpressionAttributeValues =
                        <<Put(@[1], TextSkValue, [S |-> skValue.val])>>,
                    !.KeyConditionExpression =
                        <<@[1] \o TextAnd \o TextSk \o <<" ">> \o operator
                             \o <<" ">> \o TextSkValue>>])

whereSKBeginsWith(ks, p, sk) ==
    IF ~ks.hasSK THEN Thrown(p, "SK_NOT_DEFINED_IN_SCHEMA")
    ELSE LET bound == BindSk(ks, p)
             skValue == formatPartialOrderedSK(ks, sk.keys, sk.vals)
         IN  IF ~skValue.ok THEN Thrown(bound, skValue.err)
             ELSE Returned([bound EXCEPT
                    !.ExpressionAttributeValues =
                        <<Put(@[1], TextSkValue, [S |-> skValue.val])>>,
                    !.KeyConditionExpression = <<@[1] \o TextBeginsWith>>])

whereSKBetween(ks, p, sk1, sk2) ==
    IF ~ks.hasSK THEN Thrown(p, "SK_NOT_DEFINED_IN_SCHEMA")
    ELSE LET bound == BindSk(ks, p)
             sk1Value == formatPartialOrderedSK(ks, sk1.keys, sk1.vals)
             sk2Value == formatPartialOrderedSK(ks, sk2.keys, sk2.vals)
         IN  IF ~sk1Value.ok THEN Thrown(bound, sk1Value.err)
             ELSE IF ~sk2Value.ok THEN Thrown(bound, sk2Value.err)
             ELSE Returned([bound EXCEPT
                    !.ExpressionAttributeValues =
                        <<Put(Put(@[1], TextLow, [S |-> sk1Value.val]),
                              TextHigh, [S |-> sk2Value.val])>>,
                    !.KeyConditionExpression = <<@[1] \o TextBetween>>])

\* the comparison operator each range method passes to compare
OperatorOf(method) ==
    CASE method = "whereSKequal" -> <<"=">>
      [] method = "whereSKGreaterThan" -> <<">">>
      [] method = "whereSKLowerThan" -> <<"<">>
      [] method = "whereSKGreaterThanOrEqual" -> <<">", "=">>
      [] method = "whereSKLowerThanOrEqual" -> <<"<", "=">>

CompareMethods ==
    {"whereSKequal", "whereSKGreaterThan", "whereSKLowerThan",
     "whereSKGreaterThanOrEqual", "whereSKLowerThanOrEqual"}

\* the page size search() asks the store for
searchLimit == 25

\* the CommandInput Table.query builds for a partition key
queryRequest(ks, pk, limit) ==
    [KeyConditionExpression |-> <<TextPk \o <<" ", "=", " ">> \o TextPkValue>>,
     ExpressionAttributeNames |->
         <<Put(EmptyObject, TextPk, NameText(ks.pk.name))>>,
     ExpressionAttributeValues |->
         <<Put(EmptyObject, TextPkValue, [S |-> formatPK(ks, pk).val])>>,
     FilterExpression |-> <<>>,
     ProjectionExpression |-> <<>>] @@ query(limit)

\* the CommandInput Table.scan builds: TableName and Limit only
scanRequest(limit) ==
    [KeyConditionExpression |-> <<>>,
     ExpressionAttributeNames |-> <<>>,
     ExpressionAttributeValues |-> <<>>,
     FilterExpression |-> <<>>,
     ProjectionExpression |-> <<>>] @@ query(limit)

\* Table.applySKCondition: the first condition of the object that is present
applySKCondition(ks, p, skCondition) ==
    CASE skCondition.kind = "equal" ->
            compare(ks, p, skCondition.sk, OperatorOf("whereSKequal"))
      [] skCondition.kind = "greaterThan" ->
            compare(ks, p, skCondition.sk, OperatorOf("whereSKGreaterThan"))
      [] skCondition.kind = "lowerThan" ->
            compare(ks, p, skCondition.sk, OperatorOf("whereSKLowerThan"))
      [] skCondition.kind = "greaterThanOrEqual" ->
            compare(ks, p, skCondition.sk,
                    OperatorOf("whereSKGreaterThanOrEqual"))
      [] skCondition.kind = "lowerThanOrEqual" ->
            compare(ks, p, skCondition.sk, OperatorOf("whereSKLowerThanOrEqual"))
      [] skCondition.kind = "beginsWith" ->
            whereSKBeginsWith(ks, p, skCondition.sk)
      [] skCondition.kind = "between" ->
            whereSKBetween(ks, p, skCondition.sk, skCondition.to)
      [] OTHER -> compare(ks, p, skCondition.sk, OperatorOf("whereSKequal"))

\* if (searchParams.filter) query.filter(searchParams.filter)
FilterIfAsked(p, optFilter) ==
    IF optFilter # <<>> THEN filter(p, optFilter[1]) ELSE p

\* if (searchParams.project) query.project(searchParams.project)
ProjectIfAsked(ks, p, optProject) ==
    IF optProject # <<>> THEN project(ks, p, optProject[1]) ELSE p

\* the rest of the first iteration of search(), after the range condition
SearchAfterRange(ks, searchParams, ranged) ==
    IF ranged.thrown # <<>> THEN ranged
    ELSE Returned(sortAscending(
             ProjectIfAsked(ks,
                 FilterIfAsked(ranged.params, searchParams.filter),
                 searchParams.project)))

\* Table.search up to its first run(): the request of the first page, or the
\* error thrown while it is built
search(ks, pk, searchParams) ==
    SearchAfterRange(ks, searchParams,
        IF ks.hasSK /\ searchParams.skCondition # <<>>
        THEN applySKCondition(ks, queryRequest(ks, pk, searchLimit),
                              searchParams.skCondition[1])
        ELSE Returned(queryRequest(ks, pk, searchLimit)))

----------------------------------------------------------------------------
(* The builder scenario: a Query from Table.query or a Scan from Table.scan *)
(* and the builder calls made on it and on the Query instances its range    *)
(* calls return.                                                            *)

BuilderSchemas == {SchemaComposite, SchemaSameName, SchemaNoSK}

\* the data attributes predicates and projections name
Fields == {<<"a">>, <<"a", ".", "b">>, <<"a", "_", "b">>, <<"a", "#">>}

\* a FilterValue, or undefined, with its typeof
Undefined == [type |-> "undefined", num |-> 0, str |-> <<>>, bool |-> FALSE]
NumberValue(n) == [type |-> "number", num |-> n, str |-> <<>>, bool |-> FALSE]
StringValue(str) == [type |-> "string", num |-> 0, str |-> str, bool |-> FALSE]

\* the operators of an operator map, in the order they are inserted, and the
\* numbers they are compared with
Operators == <<<<">">>, <<"<">>, <<">", "=">>, <<"<", "=">>, <<"<", ">">> >>
Numbers == <<18, 65, 7, 100, 0>>

\* operator maps of n operators: every value defined, or every value undefined
OperatorMaps(n) ==
    {[i \in 1..n |-> [op |-> Operators[i], value |-> NumberValue(Numbers[i])]],
     [i \in 1..n |-> [op |-> Operators[i], value |-> Undefined]]}

\* a condition of a filter object: undefined, a FilterValue, or an operator map
ObjectValue == [type |-> "object", num |-> 0, str |-> <<>>, bool |-> FALSE]
UndefinedCondition == [kind |-> "value", value |-> Undefined, ops |-> <<>>]
ValueCondition(value) == [kind |-> "value", value |-> value, ops |-> <<>>]
OperatorsCondition(ops) ==
    [kind |-> "operators", value |-> ObjectValue, ops |-> ops]

Conditions ==
    {UndefinedCondition, ValueCondition(StringValue(<<"x">>)),
     ValueCondition(NumberValue(18))}
        \cup {OperatorsCondition(ops) :
                ops \in UNION {OperatorMaps(n) : n \in 1..MaxOperators}}

\* the conditions of the filter objects of several predicates
SimpleConditions ==
    {UndefinedCondition, ValueCondition(StringValue(<<"x">>)),
     OperatorsCondition([i \in 1..1 |->
         [op |-> Operators[1], value |-> Undefined]])}

\* filter objects of n predicates on distinct fields, in insertion order
RECURSIVE PredicateLists(_, _)
PredicateLists(n, conds) ==
    IF n = 0 THEN {<<>>}
    ELSE {Append(l, [key |-> k, condition |-> c]) :
            l \in PredicateLists(n - 1, conds),
            k \in Fields, c \in conds}

DistinctKeys(l) == \A i, j \in 1..Len(l) : i # j => l[i].key # l[j].key

FilterObjects ==
    {<<>>} \cup PredicateLists(1, Conditions)
        \cup {l \in UNION {PredicateLists(n, SimpleConditions) :
                             n \in 2..MaxPredicates} : DistinctKeys(l)}

\* the raw filters a caller merges: with placeholders of its own, and with
\* the placeholders the request already uses for its partition key
RawFilters ==
    {[FilterExpression |-> <<"#", "a", " ", "=", " ", ":", "a">>,
      ExpressionAttributeNames |-> <<Put(EmptyObject, <<"#", "a">>, <<"a">>)>>,
      ExpressionAttributeValues |->
          <<Put(EmptyObject, <<":", "a">>, [S |-> <<"x">>])>>],
     [FilterExpression |-> TextPk \o <<" ", "=", " ">> \o TextPkValue,
      ExpressionAttributeNames |-> <<Put(EmptyObject, TextPk, <<"a">>)>>,
      ExpressionAttributeValues |->
          <<Put(EmptyObject, TextPkValue, [S |-> <<"x">>])>>]}

RECURSIVE FieldLists(_)
FieldLists(n) ==
    IF n = 0 THEN {<<>>}
    ELSE FieldLists(n - 1)
            \cup {Append(l, f) : l \in FieldLists(n - 1), f \in Fields}

ProjectDtos == FieldLists(MaxProjected)

\* the Partial<SK> arguments of the range calls: the first n declared parts,
\* or a field of the caller's when the schema declares no sort side
RangeArguments(ks) ==
    LET names == IF ks.hasSK THEN ks.sk.keys ELSE <<"other">>
    IN  {[keys |-> SubSeq(names, 1, n), vals |-> [k \in Range(names) |-> <<"a">>]] :
            n \in 1..Len(names)}

SKConditionKinds ==
    {"direct", "equal", "greaterThan", "lowerThan", "greaterThanOrEqual",
     "lowerThanOrEqual", "beginsWith", "between"}

SKConditions(ks) ==
    {[kind |-> k, sk |-> a, to |-> a] : k \in SKConditionKinds,
                                        a \in RangeArguments(ks)}

\* the partition key of the scenario
PartitionKey(ks) == [k \in Range(ks.pk.keys) |-> <<"a">>]

\* new Query(params, ...): the instance keeps the object it is given
NewQuery(obj) == [obj |-> obj, type |-> "query"]
NewScan(obj) == [obj |-> obj, type |-> "scan"]

CallsMade == IF call = <<>> THEN 0 ELSE call[1].n

\* this.params of instance h
ParamsOf(h) == objs[handles[h].obj]

\* the record of a call: the objects as they were before it, the instance it
\* was made on (0 for a call on the Table) and what it returned or threw
Called(op, h, arg, thrown, request) ==
    <<[n |-> CallsMade + 1, op |-> op, handle |-> h, arg |-> arg,
       before |-> objs, instances |-> Len(handles), thrown |-> thrown,
       request |-> request]>>

InitBuilder ==
    /\ schema \in BuilderSchemas
    /\ CodecIdle
    /\ PageIdle
    /\ \/ /\ objs = <<queryRequest(schema, PartitionKey(schema), 1)>>
          /\ handles = <<NewQuery(1)>>
       \/ /\ objs = <<scanRequest(1)>>
          /\ handles = <<NewScan(1)>>
    /\ call = <<>>

Filter(h, filterObject) ==
    /\ CallsMade < MaxCalls
    /\ objs' = [objs EXCEPT ![handles[h].obj] = filter(@, filterObject)]
    /\ call' = Called("filter", h, filterObject, <<>>, <<>>)
    /\ UNCHANGED <<schema, handles>>
    /\ UNCHANGED codecVars
    /\ UNCHANGED pageVars

FilterRaw(h, raw) ==
    /\ CallsMade < MaxCalls
    /\ objs' = [objs EXCEPT ![handles[h].obj] = filterRaw(@, raw)]
    /\ call' = Called("filterRaw", h, raw, <<>>, <<>>)
    /\ UNCHANGED <<schema, handles>>
    /\ UNCHANGED codecVars
    /\ UNCHANGED pageVars

Project(h, projectDto) ==
    /\ CallsMade < MaxCalls
    /\ objs' = [objs EXCEPT ![handles[h].obj] = project(schema, @, projectDto)]
    /\ call' = Called("project", h, projectDto, <<>>, <<>>)
    /\ UNCHANGED <<schema, handles>>
    /\ UNCHANGED codecVars
    /\ UNCHANGED pageVars

\* Query.sortAscending / Query.sortDescending
Sort(h, ascending) ==
    /\ CallsMade < MaxCalls
    /\ handles[h].type = "query"
    /\ objs' = [objs EXCEPT ![handles[h].obj] =
                   IF ascending THEN sortAscending(@) ELSE sortDescending(@)]
    /\ call' = Called("sort", h, ascending, <<>>, <<>>)
    /\ UNCHANGED <<schema, handles>>
    /\ UNCHANGED codecVars
    /\ UNCHANGED pageVars

\* a range call on instance h with outcome r: this.params is left as the call
\* changed it, and the call returns a new Query unless it throws
RangeCall(op, h, arg, r) ==
    /\ CallsMade < MaxCalls
    /\ handles[h].type = "query"
    /\ objs' = [objs EXCEPT ![handles[h].obj] = r.params]
    /\ handles' = IF r.thrown = <<>>
                  THEN Append(handles, NewQuery(handles[h].obj)) ELSE handles
    /\ call' = Called(op, h, arg, r.thrown, <<>>)
    /\ UNCHANGED schema
    /\ UNCHANGED codecVars
    /\ UNCHANGED pageVars

Compare(h, method, sk) ==
    RangeCall(method, h, sk, compare(schema, ParamsOf(h), sk, OperatorOf(method)))

WhereSKBeginsWith(h, sk) ==
    RangeCall("whereSKBeginsWith", h, sk, whereSKBeginsWith(schema, ParamsOf(h), sk))

WhereSKBetween(h, sk1, sk2) ==
    RangeCall("whereSKBetween", h, <<sk1, sk2>>,
              whereSKBetween(schema, ParamsOf(h), sk1, sk2))

\* Table.search with a range condition, up to its first run()
Search(skCondition) ==
    /\ CallsMade < MaxCalls
    /\ LET r == search(schema, PartitionKey(schema),
                       [skCondition |-> <<skCondition>>, filter |-> <<>>,
                        project |-> <<>>])
       IN  call' = Called("search", 0, skCondition, r.thrown, <<r.params>>)
    /\ UNCHANGED <<schema, objs, handles>>
    /\ UNCHANGED codecVars
    /\ UNCHANGED pageVars

NextBuilder ==
    \/ \E h \in 1..Len(handles), fo \in FilterObjects : Filter(h, fo)
    \/ \E h \in 1..Len(handles), raw \in RawFilters : FilterRaw(h, raw)
    \/ \E h \in 1..Len(handles), dto \in ProjectDtos : Project(h, dto)
    \/ \E h \in 1..Len(handles), ascending \in BOOLEAN : Sort(h, ascending)
    \/ \E h \in 1..Len(handles), method \in CompareMethods,
          sk \in RangeArguments(schema) : Compare(h, method, sk)
    \/ \E h \in 1..Len(handles), sk \in RangeArguments(schema) :
          WhereSKBeginsWith(h, sk)
    \/ \E h \in 1..Len(handles), sk1, sk2 \in RangeArguments(schema) :
          WhereSKBetween(h, sk1, sk2)
    \/ \E c \in SKConditions(schema) : Search(c)

SpecBuilder == InitBuilder /\ [][NextBuilder]_vars

----------------------------------------------------------------------------
(* Claims about the builder, checked under SpecBuilder *)

IsInfix(sub, str) ==
    \E i \in 0..(Len(str) - Len(sub)) : SubSeq(str, i + 1, i + Len(sub)) = sub

\* the number of places at which sub occurs in str
Occurrences(sub, str) ==
    Cardinality({i \in 0..(Len(str) - Len(sub)) :
                    SubSeq(str, i + 1, i + Len(sub)) = sub})

\* a table of the request, empty when the request has none
TableOf(opt) == IF opt = <<>> THEN EmptyObject ELSE opt[1]

\* an expression of the request, '' when the request has none
TextOf(opt) == IF opt = <<>> THEN <<>> ELSE opt[1]

\* the last step was the call op on an instance
JustCalled(op) == call # <<>> /\ call[1].op = op

\* this.params of the instance the last call was made on, before and after
Before == call[1].before[handles[call[1].handle].obj]
After == ParamsOf(call[1].handle)

\* the text the last filter call added to the filter expression
AddedFilterText ==
    LET old == TextOf(Before.FilterExpression)
        new == TextOf(After.FilterExpression)
    IN  IF old = <<>> THEN new
        ELSE IF new = old THEN <<>>
        ELSE SubSeq(new, Len(old) + Len(TextAndOpen) + 1, Len(new) - 1)

\* C13: a predicate with two operators on one field yields two distinct value
\* placeholders, each bound to its own value, and a filter expression that
\* holds both clauses joined by AND.
C13_TwoOperatorsTwoPlaceholders ==
    (/\ JustCalled("filter")
     /\ handles[call[1].handle].type = "query"
     /\ Len(call[1].arg) = 1
     /\ Len(call[1].arg[1].condition.ops) >= 2
     /\ \A i \in 1..2 : Defined(call[1].arg[1].condition.ops[i].value))
        => LET ops == call[1].arg[1].condition.ops
               names == TableOf(After.ExpressionAttributeNames)
               values == TableOf(After.ExpressionAttributeValues)
           IN  \E n \in DOMAIN names, v1, v2 \in DOMAIN values :
                  /\ names[n] = call[1].arg[1].key
                  /\ v1 # v2
                  /\ values[v1] = [N |-> NumToString(ops[1].value.num)]
                  /\ values[v2] = [N |-> NumToString(ops[2].value.num)]
                  /\ IsInfix(n \o <<" ">> \o ops[1].op \o <<" ">> \o v1
                               \o TextAnd
                               \o n \o <<" ">> \o ops[2].op \o <<" ">> \o v2,
                             AddedFilterText)

\* every entry of new is in merged, and every entry of old under another key
MergedInto(merged, old, new) ==
    /\ \A k \in DOMAIN new : k \in DOMAIN merged /\ merged[k] = new[k]
    /\ \A k \in DOMAIN old \ DOMAIN new :
          k \in DOMAIN merged /\ merged[k] = old[k]

\* C14: merging a filter into a request, with or without a name table or a
\* value table, leaves both tables with every new entry and every existing
\* entry of another key; the new entry is kept where the keys coincide.
C14_MergeKeepsNewAndExisting ==
    JustCalled("filterRaw")
        => /\ MergedInto(TableOf(After.ExpressionAttributeNames),
                         TableOf(Before.ExpressionAttributeNames),
                         TableOf(call[1].arg.ExpressionAttributeNames))
           /\ MergedInto(TableOf(After.ExpressionAttributeValues),
                         TableOf(Before.ExpressionAttributeValues),
                         TableOf(call[1].arg.ExpressionAttributeValues))

\* the same for the requests that have a name table
MergeKeepsWhenNamesExist ==
    (JustCalled("filterRaw") /\ Before.ExpressionAttributeNames # <<>>)
        => C14_MergeKeepsNewAndExisting

\* C15: a predicate or projection merged into a request never binds a name
\* placeholder that an expression the request already holds uses to another
\* field.
C15_NoPlaceholderReuse ==
    (JustCalled("filter") \/ JustCalled("project"))
        => \A k \in DOMAIN TableOf(Before.ExpressionAttributeNames) :
              (\/ IsInfix(k, TextOf(Before.FilterExpression))
               \/ IsInfix(k, TextOf(Before.KeyConditionExpression)))
                 => /\ k \in DOMAIN TableOf(After.ExpressionAttributeNames)
                    /\ After.ExpressionAttributeNames[1][k]
                          = Before.ExpressionAttributeNames[1][k]

\* the characters a name placeholder may hold after its '#': letters, digits
\* and the underscore
LegalPlaceholder(k) ==
    /\ Len(k) >= 2
    /\ k[1] = "#"
    /\ \A i \in 2..Len(k) : k[i] \in Alphanumerics \cup {"_"}

\* the fields the last filter or project call names
FieldsNamed ==
    IF call[1].op = "filter"
    THEN {call[1].arg[i].key : i \in 1..Len(call[1].arg)}
    ELSE Range(AttributesOf(schema, call[1].arg))

\* C16: every name placeholder a predicate or projection generates holds legal
\* characters only, and the name table maps it to the unmodified field name.
C16_PlaceholdersLegal ==
    (JustCalled("filter") \/ JustCalled("project"))
        => \A k \in DOMAIN TableOf(After.ExpressionAttributeNames)
                      \ DOMAIN TableOf(Before.ExpressionAttributeNames) :
              /\ LegalPlaceholder(k)
              /\ After.ExpressionAttributeNames[1][k] \in FieldsNamed

\* the clauses a filter object asks for: one per defined value
ClausesAsked(filterObject) ==
    LET of(pred) ==
            IF pred.condition.kind = "operators"
            THEN Cardinality({i \in 1..Len(pred.condition.ops) :
                                 pred.condition.ops[i].value.type # "undefined"})
            ELSE IF pred.condition.value.type # "undefined" THEN 1 ELSE 0
        sum[i \in 0..Len(filterObject)] ==
            IF i = 0 THEN 0 ELSE sum[i - 1] + of(filterObject[i])
    IN  sum[Len(filterObject)]

\* the clauses in a filter text: one more than the ANDs that join them
ClausesIn(text) == IF text = <<>> THEN 0 ELSE Occurrences(TextAnd, text) + 1

\* C17: predicates whose value is undefined, bare or inside an operator map,
\* add no clause: the call adds exactly one clause per defined value, and a
\* filter made of undefined predicates only leaves the request unchanged.
C17_UndefinedPredicatesSkipped ==
    JustCalled("filter")
        => /\ ClausesIn(AddedFilterText) = ClausesAsked(call[1].arg)
           /\ ClausesAsked(call[1].arg) = 0 => After = Before

\* a filter of an undefined predicate and a defined one was merged, and a
\* filter of undefined predicates only was called
C17_Witness ==
    /\ JustCalled("filter")
    /\ Len(call[1].arg) >= 2
    /\ ClausesAsked(call[1].arg) = 1
    /\ Before.FilterExpression # <<>>

\* the attributes a projection has to list: the key attributes, then the
\* requested ones
ExpectedAttributes ==
    <<NameText(schema.pk.name)>>
        \o (IF schema.hasSK THEN <<NameText(schema.sk.name)>> ELSE <<>>)
        \o call[1].arg

\* C18: after project(fields) the projection expression lists the partition
\* attribute, the sort attribute when there is one and every requested field,
\* each through a placeholder of its own that the name table resolves to it.
C18_ProjectionListsKeysAndFields ==
    JustCalled("project")
        => LET listed == Split(TextOf(After.ProjectionExpression), TextComma)
               names == TableOf(After.ExpressionAttributeNames)
           IN  /\ Len(listed) = Len(ExpectedAttributes)
               /\ \A i \in 1..Len(listed) :
                     /\ listed[i][1] = "#"
                     /\ listed[i] \in DOMAIN names
                     /\ names[listed[i]] = ExpectedAttributes[i]
               /\ \A i, j \in 1..Len(listed) : i # j => listed[i] # listed[j]

\* a field was projected on a request that has a sort attribute and holds a
\* filter
C18_Witness ==
    /\ JustCalled("project")
    /\ schema.hasSK
    /\ Len(call[1].arg) >= 1
    /\ Before.FilterExpression # <<>>

\* C19: a builder call on one instance changes the request of no other
\* instance: not of the Query a range call returned, not of the one it was
\* derived from.
C19_RangeResultIndependent ==
    (call # <<>> /\ call[1].handle >= 1)
        => \A h \in 1..call[1].instances :
              h # call[1].handle
                 => ParamsOf(h) = call[1].before[handles[h].obj]

RangeOps == CompareMethods \cup {"whereSKBeginsWith", "whereSKBetween"}

\* C20: every range call made against a schema without sort side, on a Query
\* or as the range condition of a search, fails with SK_NOT_DEFINED_IN_SCHEMA.
C20_RangeWithoutSortSideFails ==
    (call # <<>> /\ call[1].op \in RangeOps \cup {"search"} /\ ~schema.hasSK)
        => call[1].thrown = <<"SK_NOT_DEFINED_IN_SCHEMA">>

\* the same for the range methods of Query alone
RangeMethodsFailWithoutSortSide ==
    (call # <<>> /\ call[1].op \in RangeOps /\ ~schema.hasSK)
        => call[1].thrown = <<"SK_NOT_DEFINED_IN_SCHEMA">>

\* the position at which the placeholder that starts at i ends: DynamoDB reads
\* '#' or ':' and the letters, digits and underscores behind it as one token
RECURSIVE TokenEnd(_, _)
TokenEnd(text, i) ==
    IF i < Len(text) /\ text[i + 1] \in Alphanumerics \cup {"_"}
    THEN TokenEnd(text, i + 1) ELSE i

\* the placeholders an expression references
PlaceholdersIn(text) ==
    {SubSeq(text, i, TokenEnd(text, i)) :
        i \in {j \in 1..Len(text) : text[j] \in {"#", ":"}}}

\* the placeholders the expressions of a request reference
Referenced(p) ==
    PlaceholdersIn(TextOf(p.KeyConditionExpression))
        \cup PlaceholdersIn(TextOf(p.FilterExpression))
        \cup PlaceholdersIn(TextOf(p.ProjectionExpression))

\* the placeholders its tables define
DefinedIn(p) ==
    DOMAIN TableOf(p.ExpressionAttributeNames)
        \cup DOMAIN TableOf(p.ExpressionAttributeValues)

\* C28: whatever builder calls were made, the placeholders the key condition,
\* filter and projection expressions of a request reference are exactly the
\* keys of its name and value tables, so run() sends a consistent command.
C28_PlaceholdersExactlyTables ==
    \A h \in 1..Len(handles) : Referenced(ParamsOf(h)) = DefinedIn(ParamsOf(h))

\* the same for a request as Table.query builds it and after a first filter,
\* projection or successful range call on it
PlaceholdersExactWhenFresh ==
    (/\ handles[1].type = "query"
     /\ CallsMade <= 1
     /\ call # <<>> => /\ call[1].thrown = <<>>
                       /\ call[1].op # "filterRaw"
                       /\ call[1].op = "filter" =>
                             \A i \in 1..Len(call[1].arg) :
                                /\ call[1].arg[i].key # <<"a", "#">>
                                /\ call[1].arg[i].condition.kind = "value")
        => C28_PlaceholdersExactlyTables

\* C29: a filter call leaves every value placeholder that the filter
\* expression already references bound to the value it had: no later call
\* overwrites the value of an earlier clause.
C29_FilterKeepsEarlierValues ==
    JustCalled("filter")
        => \A k \in PlaceholdersIn(TextOf(Before.FilterExpression))
                      \cap DOMAIN TableOf(Before.ExpressionAttributeValues) :
              /\ k \in DOMAIN TableOf(After.ExpressionAttributeValues)
              /\ After.ExpressionAttributeValues[1][k]
                    = Before.ExpressionAttributeValues[1][k]

\* the same for a filter on fields whose value placeholders the filter
\* expression does not hold yet
FilterKeepsValuesOfOtherFields ==
    (/\ JustCalled("filter")
     /\ \A i \in 1..Len(call[1].arg) :
          ~IsInfix(TextVal \o ReplaceAll(call[1].arg[i].key, ".", "_") \o <<"_">>,
                   TextOf(Before.FilterExpression)))
        => C29_FilterKeepsEarlierValues

----------------------------------------------------------------------------
(* The operations of Table that read a partition page by page: search,      *)
(* deleteWithCondition and deletePartition loop until the partition is      *)
(* read; getPartitionBatch fetches one page per call.  The table is changed *)
(* by these operations only.                                                *)

\* a schema the constructor accepts: each side has one part and no separator,
\* and each physical attribute is named as the part of the other side
SchemaCrossNamed ==
    [hasSK |-> TRUE,
     pk |-> KeyDef("x", <<"y">>, NoSep),
     sk |-> KeyDef("y", <<"x">>, NoSep)]

TableSchemas ==
    {ks \in {SchemaComposite, SchemaSingleNoSep, SchemaSameName, SchemaNoSK,
             SchemaCrossNamed} : SchemaFormatterAccepts(ks)}

\* the page size deletePartition passes and the most items of a transaction
partitionLimit == 25
batchLimit == 25
\* the limit the documentation of getPartitionBatch gives as default
defaultLimit == 50
\* the items and the limit of the example partition
exampleItems == 30
exampleLimit == 5

\* the two-digit number of item i
ItemNumber(i) ==
    <<Digits[((i - 1) \div Len(Digits)) + 1], Digits[((i - 1) % Len(Digits)) + 1]>>

\* item i of the partition: every key part is "a" except the last sort part
PartitionItem(ks, i) ==
    [k \in KeyFields(ks) |->
        IF ks.hasSK /\ k = ks.sk.keys[Len(ks.sk.keys)]
        THEN ItemNumber(i) ELSE <<"a">>]

PartitionRecord(ks, i, status) ==
    Spread(formatItemKeysDtoAsRecord(ks, PartitionItem(ks, i)).val,
           [n \in {"status"} |-> status])

\* the sizes of the partitions: no, one and two pages of a loop, each with up
\* to MaxExtraItems more, and the example
PartitionSizes(ks) ==
    IF ks.hasSK
    THEN UNION {{k, searchLimit + k, 2 * searchLimit + k} : k \in 0..MaxExtraItems}
            \cup {exampleItems}
    ELSE {0, 1}

\* partitions of T items of which all, none, the last, or the first and the
\* last match the filter status = "x"
Partitions(ks) ==
    UNION {{[i \in 1..T |->
                PartitionRecord(ks, i, IF i \in m THEN <<"x">> ELSE <<"y">>)] :
              m \in {1..T, {}, {T}, {1, T} \cap (1..T)}} : T \in PartitionSizes(ks)}

\* the range conditions of the operations: none, two that name the first sort
\* part, and one that skips it (or names no part when the side has one part)
PartitionConditions(ks) ==
    IF ~ks.hasSK THEN {<<>>}
    ELSE LET first == [keys |-> SubSeq(ks.sk.keys, 1, 1),
                       vals |-> [k \in Range(ks.sk.keys) |-> <<"a">>]]
             skipped == [keys |-> SubSeq(ks.sk.keys, 2, Len(ks.sk.keys)),
                         vals |-> [k \in Range(ks.sk.keys) |-> <<"a">>]]
         IN  {<<>>,
              <<[kind |-> "beginsWith", sk |-> first, to |-> first]>>,
              <<[kind |-> "lowerThan", sk |-> first, to |-> first]>>,
              <<[kind |-> "lowerThan", sk |-> skipped, to |-> skipped]>>}

\* the store's reading of a range condition on a record
Satisfies(ks, record, skCondition) ==
    LET bound == formatPartialOrderedSK(ks, skCondition.sk.keys, skCondition.sk.vals).val
    IN  IF skCondition.kind = "beginsWith"
        THEN IsPrefix(bound, record[ks.sk.name])
        ELSE StrLess(record[ks.sk.name], bound)

\* the records of the partition a query with the range condition reads
Within(ks, tbl, optCondition) ==
    IF ~ks.hasSK \/ optCondition = <<>> THEN tbl
    ELSE SelectIdx(tbl, {i \in 1..Len(tbl) : Satisfies(ks, tbl[i], optCondition[1])}, 1)

\* the store rejects a start key of another partition
StartKeyValid(ks, cmd) ==
    \/ cmd.ExclusiveStartKey = <<>>
    \/ cmd.ExclusiveStartKey[1][ks.pk.name] = formatPK(ks, PartitionKey(ks)).val

\* the table without the items of the given keys: the transaction of Deletes
RemoveKeys(ks, tbl, keys) ==
    SelectIdx(tbl, {i \in 1..Len(tbl) : KeysOf(ks, tbl[i]) \notin keys}, 1)

formatPKFromItem(ks, it) == [k \in Range(ks.pk.keys) |-> Get(it, k)]

formatSKFromItem(ks, it) == [k \in Range(ks.sk.keys) |-> Get(it, k)]

formatItemDtoAsRecord(ks, it) ==
    LET keys == formatItemKeysDtoAsRecord(ks, it)
        data == [k \in DOMAIN it \ KeyFields(ks) |-> it[k]]
    IN  IF keys.ok THEN Ok(Spread(keys.val, data)) ELSE keys

\* the transaction of the Deletes of the records, or the error of the first
\* item that could not be encoded
DeleteRecords(ks, tbl, records, failed) ==
    IF failed # {}
    THEN records[CHOOSE i \in failed : \A j \in failed : i <= j]
    ELSE Ok(RemoveKeys(ks, tbl, {KeysOf(ks, records[i].val) : i \in 1..Len(records)}))

\* the items of the transaction that formatItemDtoAsRecord throws for
FailedOf(records) == {i \in 1..Len(records) : ~records[i].ok}

\* transactionalDeleteItemsInDynamo: the table after the transaction, or the
\* error thrown before it is sent
transactionalDeleteItemsInDynamo(ks, tbl, deletes) ==
    IF Len(deletes) = 0 THEN Ok(tbl)
    ELSE IF Len(deletes) > batchLimit THEN Throw("BATCH_LIMIT_EXCEEDED", "")
    ELSE \* the records are computed once for the transaction
         LET records == [i \in 1..Len(deletes) |->
                 formatItemDtoAsRecord(ks, Spread(deletes[i].pk, deletes[i].sk))]
         IN  DeleteRecords(ks, tbl, records, FailedOf(records))

\* the keys deletePartition and deleteWithCondition take from the items
DeletesOf(ks, its) ==
    [i \in 1..Len(its) |->
        [pk |-> formatPKFromItem(ks, its[i]),
         sk |-> IF ks.hasSK THEN formatSKFromItem(ks, its[i]) ELSE EmptyObject]]

\* if (getSK() && skCondition) query = applySKCondition(query, skCondition):
\* the error it throws, if any
RangeThrown(ks, t) ==
    IF ks.hasSK /\ t.cond # <<>>
    THEN applySKCondition(ks, queryRequest(ks, t.pk, searchLimit), t.cond[1]).thrown
    ELSE <<>>

\* if (lastEvaluatedKey) query.pivot(lastEvaluatedKey)
CursorRequest(ks, t) ==
    IF t.cursor # <<>>
    THEN pivot(ks, query(searchLimit), t.cursor[1])
    ELSE Ok(query(searchLimit))

PageRequestFor(t, pkv, thrown, pivoted) ==
    IF ~pkv.ok THEN pkv
    ELSE IF thrown # <<>> THEN Throw(thrown[1], "")
    ELSE IF ~pivoted.ok THEN pivoted
    ELSE Ok(sortAscending(
            [pivoted.val EXCEPT !.FilterExpression =
                IF t.filter THEN "status = x" ELSE None]))

\* the Query of one page of search and deleteWithCondition before run(): the
\* range condition, the cursor, the filter and the ascending order applied to
\* the Query of Table.query; or the error thrown on the way
PageRequest(ks, t) ==
    PageRequestFor(t, formatPK(ks, t.pk), RangeThrown(ks, t), CursorRequest(ks, t))

BatchRequestFor(ks, qparams, pkv, q) ==
    IF ~pkv.ok THEN pkv
    ELSE IF qparams.pivot # <<>> THEN pivot(ks, q, qparams.pivot[1])
    ELSE Ok(q)

\* the Query of Table.getPartitionBatch before run(), or the error thrown
BatchRequest(ks, qparams) ==
    BatchRequestFor(ks, qparams, formatPK(ks, qparams.pk),
        IF qparams.direction = "backward"
        THEN sortDescending(query(qparams.limit))
        ELSE sortAscending(query(qparams.limit)))

\* the command run() sends for a request
CommandOf(p) == buildQueryCommandInput(IncrementLimit(p))

\* the state of an operation: its arguments, the cursor and the results of its
\* loop, the requests it has sent to the store (queries and transactions), the
\* last command and page, and how it ended
Operation(op, tbl, pk, cond, filtered, limit) ==
    [op |-> op, status |-> "running", pk |-> pk, cond |-> cond,
     filter |-> filtered, limit |-> limit, start |-> tbl,
     cursor |-> <<>>, items |-> <<>>,
     deleted |-> 0, sent |-> 0, error |-> "", calls |-> 0,
     cmd |-> <<>>, first |-> <<>>, last |-> <<>>, asked |-> <<>>]

Threw(t, thrown) == [t EXCEPT !.status = "threw", !.error = thrown.err]

\* the store answers a start key of another partition with an error
Rejected(t, cmd) ==
    [t EXCEPT !.status = "rejected", !.error = "ValidationException",
              !.sent = @ + 1, !.cmd = <<cmd>>]

\* the query of a page was sent and answered
Paged(t, cmd, r) == [t EXCEPT !.sent = @ + 1, !.cmd = <<cmd>>, !.last = <<r>>]

\* the loop condition of search and deleteWithCondition
WithinLimit(limit, got) == limit = 0 \/ got < limit

InitTable ==
    /\ schema \in TableSchemas
    /\ CodecIdle
    /\ BuilderIdle
    /\ table \in Partitions(schema)
    /\ callerLimit = 1
    /\ params = query(1)
    /\ inflight = <<>>
    /\ page = <<>>
    /\ \/ \E op \in {"search", "deleteWithCondition"},
             cond \in PartitionConditions(schema), filtered \in BOOLEAN,
             limit \in {0, 1, searchLimit + 1} :
               trav = Operation(op, table, PartitionKey(schema), cond, filtered, limit)
       \/ \E op \in {"search", "deleteWithCondition", "deletePartition",
                     "getPartitionBatch"} :
               trav = Operation(op, table, EmptyObject, <<>>, FALSE, 0)
       \/ trav = Operation("deletePartition", table, PartitionKey(schema),
                           <<>>, FALSE, 0)
       \/ \E limit \in {NaN, 1, exampleLimit} :
               trav = Operation("getPartitionBatch", table,
                                PartitionKey(schema), <<>>, FALSE, limit)

\* search() from the answer r of run() on
SearchAfterRun(t, r) ==
    IF t.limit # 0 /\ Len(t.items) + Len(r.items) > t.limit
    THEN [t EXCEPT
            !.items = @ \o SubSeq(r.items, 1, t.limit - Len(t.items)),
            !.status = "returned"]
    ELSE [t EXCEPT
            !.items = @ \o r.items,
            !.status =
                IF r.hasNext /\ WithinLimit(t.limit, Len(t.items) + Len(r.items))
                THEN "running" ELSE "returned",
            !.cursor = IF r.hasNext THEN r.lastEvaluatedKey ELSE @]

\* one iteration of search() for the request req of its page
SearchOf(ks, tbl, t, req) ==
    IF ~req.ok THEN Threw(t, req)
    ELSE IF ~StartKeyValid(ks, CommandOf(req.val))
         THEN Rejected(t, CommandOf(req.val))
         ELSE SearchAfterRun(Paged(t, CommandOf(req.val), <<>>),
                             RunAlone(ks, Within(ks, tbl, t.cond), req.val))

\* one iteration of the loop of Table.search
SearchIteration ==
    /\ trav.op = "search"
    /\ trav.status = "running"
    /\ trav' = SearchOf(schema, table, trav, PageRequest(schema, trav))
    /\ UNCHANGED <<schema, table, callerLimit, params, inflight, page>>
    /\ UNCHANGED codecVars
    /\ UNCHANGED builderVars

\* the items of a page deleteWithCondition deletes
ItemsToProcess(t, r) ==
    IF t.limit # 0 /\ t.deleted + Len(r.items) > t.limit
    THEN SubSeq(r.items, 1, t.limit - t.deleted) ELSE r.items

\* an operation and the table as an iteration leaves them
Left(t, tbl) == [trav |-> t, table |-> tbl]

\* deleteWithCondition from the outcome done of deleteBatch on
DeleteWithConditionAfterBatch(t, tbl, r, processed, done) ==
    IF ~done.ok
    THEN Left([t EXCEPT !.status = "threw", !.error = "Failed to delete batch"],
              tbl)
    ELSE Left([t EXCEPT
                 !.deleted = @ + processed,
                 !.status =
                     IF r.hasNext /\ WithinLimit(t.limit, t.deleted + processed)
                     THEN "running" ELSE "returned",
                 !.cursor = IF r.hasNext THEN r.lastEvaluatedKey ELSE @,
                 !.sent = @ + 1],
              done.val)

\* deleteWithCondition from the answer r of run() on
DeleteWithConditionAfterRun(ks, tbl, t, r) ==
    IF Len(r.items) = 0 THEN Left([t EXCEPT !.status = "returned"], tbl)
    ELSE DeleteWithConditionAfterBatch(
             t, tbl, r, Len(ItemsToProcess(t, r)),
             transactionalDeleteItemsInDynamo(
                 ks, tbl, DeletesOf(ks, ItemsToProcess(t, r))))

\* one iteration of deleteWithCondition for the request req of its page
DeleteWithConditionOf(ks, tbl, t, req) ==
    IF ~req.ok THEN Left(Threw(t, req), tbl)
    ELSE IF ~StartKeyValid(ks, CommandOf(req.val))
         THEN Left(Rejected(t, CommandOf(req.val)), tbl)
         ELSE DeleteWithConditionAfterRun(
                  ks, tbl, Paged(t, CommandOf(req.val), <<>>),
                  RunAlone(ks, Within(ks, tbl, t.cond), req.val))

\* one iteration of the loop of Table.deleteWithCondition
DeleteWithConditionIteration ==
    /\ trav.op = "deleteWithCondition"
    /\ trav.status = "running"
    /\ \E left \in {DeleteWithConditionOf(schema, table, trav,
                                          PageRequest(schema, trav))} :
          trav' = left.trav /\ table' = left.table
    /\ UNCHANGED <<schema, callerLimit, params, inflight, page>>
    /\ UNCHANGED codecVars
    /\ UNCHANGED builderVars

\* deletePartition from the outcome done of deleteBatch on
DeletePartitionAfterBatch(t, tbl, batch, done) ==
    IF ~done.ok THEN Left(Threw(t, done), tbl)
    ELSE Left([t EXCEPT
                 !.deleted = @ + Len(batch.items),
                 !.status = IF batch.hasNext THEN "running" ELSE "returned",
                 !.cursor = batch.lastEvaluatedKey,
                 !.sent = @ + 1],
              done.val)

\* deletePartition from the page batch of getPartitionBatch on
DeletePartitionAfterRun(ks, tbl, t, batch) ==
    IF Len(batch.items) = 0 THEN Left([t EXCEPT !.status = "returned"], tbl)
    ELSE DeletePartitionAfterBatch(
             t, tbl, batch,
             transactionalDeleteItemsInDynamo(ks, tbl, DeletesOf(ks, batch.items)))

\* one iteration of deletePartition for the request req of its page
DeletePartitionOf(ks, tbl, t, req) ==
    IF ~req.ok THEN Left(Threw(t, req), tbl)
    ELSE IF ~StartKeyValid(ks, CommandOf(req.val))
         THEN Left(Rejected(t, CommandOf(req.val)), tbl)
         ELSE DeletePartitionAfterRun(ks, tbl, Paged(t, CommandOf(req.val), <<>>),
                                      RunAlone(ks, tbl, req.val))

\* one iteration of the loop of Table.deletePartition
DeletePartitionIteration ==
    /\ trav.op = "deletePartition"
    /\ trav.status = "running"
    /\ \E left \in {DeletePartitionOf(schema, table, trav,
                        BatchRequest(schema,
                            [pk |-> trav.pk, limit |-> partitionLimit,
                             direction |-> IF trav.cursor # <<>>
                                           THEN "forward" ELSE None,
                             pivot |-> trav.cursor]))} :
          trav' = left.trav /\ table' = left.table
    /\ UNCHANGED <<schema, callerLimit, params, inflight, page>>
    /\ UNCHANGED codecVars
    /\ UNCHANGED builderVars

\* the store's answer to a command whose Limit is not a number, when it does
\* not reject it: it reads the partition without a limit
WithoutLimit(cmd, tbl) ==
    IF cmd.Limit = NaN THEN [cmd EXCEPT !.Limit = Len(tbl) + 1] ELSE cmd

\* a page of getPartitionBatch was returned
BatchReturned(t, qparams, cmd, r) ==
    [t EXCEPT !.status = "returned", !.calls = @ + 1, !.sent = 1,
              !.cmd = <<cmd>>, !.first = IF t.calls = 0 THEN <<r>> ELSE @,
              !.last = <<r>>, !.asked = <<qparams>>]

\* one call of getPartitionBatch for the request req
GetPartitionBatchOf(ks, tbl, t, qparams, lenient, req) ==
    IF ~req.ok
    THEN [Threw(t, req) EXCEPT !.sent = 0, !.asked = <<qparams>>]
    ELSE IF \/ ~StartKeyValid(ks, CommandOf(req.val))
            \/ (CommandOf(req.val).Limit = NaN /\ ~lenient)
         THEN [Rejected(t, CommandOf(req.val)) EXCEPT
                 !.sent = 1, !.asked = <<qparams>>]
         ELSE BatchReturned(t, qparams, CommandOf(req.val),
                  RunDerive(ks, IncrementLimit(req.val),
                      StoreQuery(ks, tbl, WithoutLimit(CommandOf(req.val), tbl))))

\* the arguments of a call of getPartitionBatch
QParams(t, direction, pivotKey) ==
    [pk |-> t.pk, limit |-> t.limit, direction |-> direction, pivot |-> pivotKey]

\* a call of Table.getPartitionBatch: the first of a caller without
\* pagination, a later one pivoted on a key of the page before.  A command
\* whose Limit is not a number is rejected by the store or read without limit.
\* sent counts the requests of the call.
GetPartitionBatch(direction, pivotKey, lenient) ==
    /\ trav.op = "getPartitionBatch"
    /\ trav.status \in {"running", "returned"}
    /\ trav.calls < 2
    /\ IF trav.calls = 0
       THEN direction = None /\ pivotKey = <<>>
       ELSE /\ direction \in {"forward", "backward"}
            /\ pivotKey # <<>>
            /\ pivotKey \in {trav.last[1].lastEvaluatedKey,
                             trav.last[1].firstEvaluatedKey}
    /\ trav' = GetPartitionBatchOf(
                   schema, table, trav, QParams(trav, direction, pivotKey), lenient,
                   BatchRequest(schema, QParams(trav, direction, pivotKey)))
    /\ UNCHANGED <<schema, table, callerLimit, params, inflight, page>>
    /\ UNCHANGED codecVars
    /\ UNCHANGED builderVars

NextTable ==
    \/ SearchIteration
    \/ DeleteWithConditionIteration
    \/ DeletePartitionIteration
    \/ \E direction \in {None, "forward", "backward"},
          pivotKey \in {<<>>} \cup {<<KeyAt(i)>> : i \in 1..Len(table)}
                        \cup {<<formatRecordAsItemDto(schema, table[i])>> :
                                i \in 1..Len(table)},
          lenient \in BOOLEAN :
            GetPartitionBatch(direction, pivotKey, lenient)

SpecTable == InitTable /\ [][NextTable]_vars

----------------------------------------------------------------------------
(* Claims about the table operations, checked under SpecTable *)

Ended == trav.status \in {"returned", "threw", "rejected"}

\* every side of the schema decodes to the parts it was encoded from: it has
\* a separator, or its attribute carries the name of its part
DecodesToParts(ks) ==
    /\ ks.pk.separator # NoSep \/ ks.pk.name = ks.pk.keys[1]
    /\ ks.hasSK => (ks.sk.separator # NoSep \/ ks.sk.name = ks.sk.keys[1])

\* the arguments of the operation pass the key validation
ValidArguments ==
    /\ formatPK(schema, trav.pk).ok
    /\ (schema.hasSK /\ trav.cond # <<>>)
          => assertPartialOrderSKIsCorrect(schema, trav.cond[1].sk.keys).ok

\* the records of tbl that match pk, range condition and filter of the operation
MatchingRecords(tbl) ==
    LET within == Within(schema, tbl, trav.cond)
    IN  SelectIdx(within,
                  {i \in 1..Len(within) :
                      ~trav.filter \/ within[i]["status"] = <<"x">>}, 1)

KeyValidationErrors ==
    {"KEY_PART_REQUIRED", "SK_NOT_DEFINED_IN_SCHEMA", "SK_EMPTY",
     "FIRST_KEY_NOT_INCLUDED_IN_SK", "KEY_NOT_INCLUDED_IN_SK"}

\* C21: an operation that fails with a key-validation error (a missing key
\* part, no sort key in the schema, a partial sort key that is not a prefix)
\* has sent no request to the store.
C21_NoRequestBeforeValidationError ==
    (trav.status = "threw" /\ trav.error \in KeyValidationErrors)
        => trav.sent = 0

\* the same for the schemas whose sides decode to their parts
NoRequestBeforeValidationErrorWhenDecodable ==
    DecodesToParts(schema) => C21_NoRequestBeforeValidationError

\* the second call of getPartitionBatch asked for the page backward from the
\* last key of the first, forward page
BackwardFromLastKey ==
    /\ trav.op = "getPartitionBatch"
    /\ trav.limit # NaN
    /\ trav.first # <<>>
    /\ trav.first[1].items # <<>>
    /\ trav.asked # <<>>
    /\ trav.asked[1].direction = "backward"
    /\ trav.asked[1].pivot = trav.first[1].lastEvaluatedKey

\* C23: after a first forward page, the backward page pivoted on the last key
\* of that page returns exactly the items that precede the key, in descending
\* order (with limit 5 on items 00..29: 03, 02, 01, 00 after 00..04).
C23_BackwardPagePrecedesPivot ==
    BackwardFromLastKey
        => /\ trav.status = "returned"
           /\ trav.calls = 2
           /\ trav.last[1].items =
                 Reverse(SubSeq(trav.first[1].items, 1,
                                Len(trav.first[1].items) - 1))

\* the same for the schemas whose sides decode to their parts
BackwardPagePrecedesPivotWhenDecodable ==
    DecodesToParts(schema) => C23_BackwardPagePrecedesPivot

\* the example: 30 items, limit 5, four items on the backward page
BackwardPageOfExample ==
    /\ BackwardFromLastKey
    /\ Len(trav.start) = exampleItems
    /\ trav.limit = exampleLimit
    /\ trav.status = "returned"
    /\ Len(trav.last[1].items) = exampleLimit - 1

\* C24: when deleteWithCondition returns, it has deleted as many items as its
\* limit, or no item that matches partition key, range condition and filter
\* remains in the table.
C24_DeletesToLimitOrAll ==
    (trav.op = "deleteWithCondition" /\ trav.status = "returned")
        => \/ trav.limit # 0 /\ trav.deleted = trav.limit
           \/ MatchingRecords(table) = <<>>

\* the same without filter, for the schemas whose sides decode to their parts
DeletesToLimitOrAllWithoutFilter ==
    (DecodesToParts(schema) /\ ~trav.filter) => C24_DeletesToLimitOrAll

\* C25: when deletePartition returns, no item of the partition remains.
C25_DeletePartitionLeavesNone ==
    (trav.op = "deletePartition" /\ trav.status = "returned") => table = <<>>

\* for the schemas whose sides decode to their parts deletePartition returns
\* and leaves none
DeletePartitionLeavesNoneWhenDecodable ==
    (/\ DecodesToParts(schema)
     /\ trav.op = "deletePartition"
     /\ Ended
     /\ ValidArguments)
        => trav.status = "returned" /\ table = <<>>

\* a partition of more than one page was deleted
DeletedTwoPages ==
    /\ trav.op = "deletePartition"
    /\ trav.status = "returned"
    /\ trav.deleted > partitionLimit
    /\ table = <<>>

\* the items search has to return: the matching items in ascending key order,
\* the first limit of them when a limit is given
ExpectedOfSearch ==
    LET matching == MatchingRecords(trav.start)
        n == IF trav.limit # 0 /\ trav.limit < Len(matching)
             THEN trav.limit ELSE Len(matching)
    IN  [i \in 1..n |-> formatRecordAsItemDto(schema, matching[i])]

\* C26: search with valid arguments returns every item that matches partition
\* key, range condition and filter, once, in ascending key order, cut to the
\* first limit matches when a limit is given.
C26_SearchReturnsMatches ==
    (trav.op = "search" /\ Ended /\ ValidArguments)
        => /\ trav.status = "returned"
           /\ trav.items = ExpectedOfSearch

\* the same for the schemas whose sides decode to their parts
SearchReturnsMatchesWhenDecodable ==
    DecodesToParts(schema) => C26_SearchReturnsMatches

\* a search over three pages of which the first held no matching item
SearchedPastEmptyPage ==
    /\ trav.op = "search"
    /\ trav.status = "returned"
    /\ trav.filter
    /\ trav.sent >= 3
    /\ trav.items # <<>>

\* C27: getPartitionBatch called without a limit asks the store for 51 items
\* and returns at most 50.
C27_DefaultLimitFifty ==
    (trav.op = "getPartitionBatch" /\ trav.limit = NaN /\ trav.cmd # <<>>)
        => /\ trav.cmd[1].Limit = defaultLimit + 1
           /\ trav.status = "returned" => Len(trav.last[1].items) <= defaultLimit

====
